---- MODULE Spec2Model ----
(***************************************************************************)
(* A model of the snowflake generator's procedural geometry pipeline:      *)
(* the seeded RNG (seedFromString, mulberry32), the skeleton generator     *)
(* and six-fold replicator (buildSnowflake2D), the mesh front end          *)
(* (makeSnowflakeMeshGeometry, buildSnowflakeMeshFromSegments) and the     *)
(* outline extraction (segmentsToPolygon).                                 *)
(*                                                                         *)
(* Numbers.  A JavaScript integer-valued number n is the pair <<hi, lo>>   *)
(* with n = hi * 65536 + lo and lo in 0..65535: a uint32 has hi in         *)
(* 0..65535, an int32 has hi in -32768..32767.  Real-valued quantities are *)
(* fixed point, in thousandths (FP).                                       *)
(***************************************************************************)
EXTENDS Integers, Sequences, FiniteSets, TLC

VARIABLES
    text,       \* seedFromString: the string being hashed (character codes)
    seedOut,    \* seedFromString: the value returned, or None
    genSeed,    \* mulberry32: the seed the generators were created from
    gens,       \* mulberry32: the captured state t of each generator closure
    outs,       \* mulberry32: the values each generator has returned so far
    bArgs,      \* buildSnowflake2D: the seed of the generator passed, complexity, thickness
    bRet,       \* buildSnowflake2D: what the call returned
    bPc,        \* buildSnowflake2D: "ready" before the call, "done" after it
    pArgs,      \* segmentsToPolygon: the arguments segments and options
    pRet,       \* segmentsToPolygon: the polygon returned and the return taken
    pPc,        \* segmentsToPolygon: "ready" before the call, "done" after it
    mArgs,      \* the mesh front end: the function called (fn) and its arguments
    mRet,       \* the mesh front end: what the call returned
    mPc,        \* the mesh front end: "ready" before a call, "done" after it
    heap,       \* the generator closure the last makeSnowflakeMeshGeometry left behind
    log,        \* the (seed, complexity, thickness) and the segments of each invocation
    frame,      \* a while loop under way: the loop and its local variables
    fPc,        \* the while loop: the position in it, "done" once it is left
    store,      \* the arrays and objects allocated, by address
    sArgs,      \* a stage function called on the store: fn and its arguments
    sRet,       \* the address the stage function returned, 0 for undefined
    sPc,        \* the stage function: "ready" before the call, "done" after it
    block,      \* the marching loop: a block of 2 x 2 cells of the grid and its field
    cells,      \* the marching loop: ix, iy, v0..v3, centerValue, mask, pairs per cell
    cSegs,      \* the marching loop: contourSegments, the segments pushed so far
    cPc,        \* the marching loop: "for" inside the loops, "done" after them
    nameOrPhrase,     \* App: the name field (character codes)
    complexityLevel,  \* App: the complexity slider, 0..2
    thicknessLevel,   \* App: the thickness slider, 0..2
    sizeLevel,        \* App: the size slider, 0..4
    generated,        \* App: the committed parameter tuple
    download          \* App: the name of the file last exported (character codes)

seedVars == <<text, seedOut>>
rngVars == <<genSeed, gens, outs>>
buildVars == <<bArgs, bRet, bPc>>
polyVars == <<pArgs, pRet, pPc>>
meshVars == <<mArgs, mRet, mPc, heap, log>>
loopVars == <<frame, fPc>>
stageVars == <<store, sArgs, sRet, sPc>>
cellVars == <<block, cells, cSegs, cPc>>
appVars == <<nameOrPhrase, complexityLevel, thicknessLevel, sizeLevel, generated,
            download>>
vars == <<seedVars, rngVars, buildVars, polyVars, meshVars, loopVars, stageVars,
          cellVars, appVars>>

None == "none"

\* what mRet holds before a call has returned: a record, as the mesh is
NoMesh == [position |-> <<>>, triangles |-> 0]

-----------------------------------------------------------------------------
(* 32-bit words *)

Half == 256 * 256

RECURSIVE BitsXor(_, _, _)
BitsXor(a, b, n) ==
    IF n = 0 THEN 0
    ELSE (((a % 2) + (b % 2)) % 2) + 2 * BitsXor(a \div 2, b \div 2, n - 1)

RECURSIVE BitsOr(_, _, _)
BitsOr(a, b, n) ==
    IF n = 0 THEN 0
    ELSE (IF (a % 2) + (b % 2) > 0 THEN 1 ELSE 0) + 2 * BitsOr(a \div 2, b \div 2, n - 1)

Xor16(a, b) == BitsXor(a, b, 16)

Or16(a, b) == BitsOr(a, b, 16)

\* ToUint32: the operand modulo 2^32, as the operator >>> 0 yields it
ToUint32(w) == <<w[1] % Half, w[2]>>

\* ToInt32: the operand modulo 2^32 read as a signed word, as every bitwise
\* operator and Math.imul yield it
ToInt32(w) ==
    LET h == w[1] % Half
    IN  <<IF h >= 32768 THEN h - Half ELSE h, w[2]>>

\* a + b on numbers (exact: a double holds every sum of two 33-bit integers)
Add(a, b) ==
    LET lo == a[2] + b[2]
    IN  <<a[1] + b[1] + (lo \div Half), lo % Half>>

\* a ^ b
Xor(a, b) ==
    LET x == ToUint32(a)
        y == ToUint32(b)
    IN  ToInt32(<<Xor16(x[1], y[1]), Xor16(x[2], y[2])>>)

\* a | b
Or(a, b) ==
    LET x == ToUint32(a)
        y == ToUint32(b)
    IN  ToInt32(<<Or16(x[1], y[1]), Or16(x[2], y[2])>>)

Pow2(n) == CASE n = 7 -> 128 [] n = 14 -> 16384 [] n = 15 -> 32768

\* a >>> n, for 0 < n < 16
Shr(a, n) ==
    LET x == ToUint32(a)
        p == Pow2(n)
        q == Half \div p
    IN  <<x[1] \div p, (x[2] \div p) + (x[1] % p) * q>>

\* the 32-bit product of two 16-bit halves, by bytes
Mul16(x, y) ==
    LET x1 == x \div 256
        x0 == x % 256
        y1 == y \div 256
        y0 == y % 256
        mid == x1 * y0 + x0 * y1
        low == x0 * y0 + (mid % 256) * 256
    IN  <<(x1 * y1) + (mid \div 256) + (low \div Half), low % Half>>

\* Math.imul(a, b): the low 32 bits of the product, signed
Imul(a, b) ==
    LET x == ToUint32(a)
        y == ToUint32(b)
        ll == Mul16(x[2], y[2])
        hl == Mul16(x[1], y[2])
        lh == Mul16(x[2], y[1])
    IN  ToInt32(<<ll[1] + hl[2] + lh[2], ll[2]>>)

-----------------------------------------------------------------------------
(* seedFromString *)

FnvOffset == <<33052, 40389>>      \* 2166136261 = 0x811C9DC5
FnvPrime == <<256, 403>>           \* 16777619   = 0x01000193

\* the variant that multiplies before it mixes the character in (FNV-1)
RECURSIVE seedFoldMulFirst(_, _, _)
seedFoldMulFirst(h, str, i) ==
    IF i > Len(str) THEN h
    ELSE seedFoldMulFirst(Xor(Imul(h, FnvPrime), <<0, str[i]>>), str, i + 1)

RECURSIVE seedFold(_, _, _)
seedFold(h, str, i) ==
    IF i > Len(str) THEN h
    ELSE seedFold(Imul(Xor(h, <<0, str[i]>>), FnvPrime), str, i + 1)

seedFromString(str) == ToUint32(seedFold(ToUint32(FnvOffset), str, 1))

-----------------------------------------------------------------------------
(* mulberry32 *)

Increment == <<27947, 31221>>      \* 0x6D2B79F5

\* mulberry32(seed): the state t the returned closure captures
mulberry32(seed) == ToUint32(seed)

\* the numerator k of the value k / 2^32 that rand returns from state t
Mix(t) ==
    LET x == Imul(Xor(t, Shr(t, 15)), Or(t, <<0, 1>>))
        y == Xor(x, Add(x, Imul(Xor(x, Shr(x, 7)), Or(x, <<0, 61>>))))
    IN  Xor(y, Shr(y, 14))

\* rand without the closing >>> 0: the signed word
rand_signed(t0) ==
    LET t == ToUint32(Add(t0, Increment))
    IN  [t |-> t, value |-> Mix(t)]

\* one call of the closure in state t0: the new state and the numerator of
\* the value returned
rand(t0) ==
    LET t == ToUint32(Add(t0, Increment))
    IN  [t |-> t, value |-> ToUint32(Mix(t))]

\* a closure whose state is one variable shared by every generator
storeState_shared(gs, g, t) == [x \in DOMAIN gs |-> t]

\* the assignment to t inside rand writes the calling closure's own t
storeState(gs, g, t) == [gs EXCEPT ![g] = t]

-----------------------------------------------------------------------------
(* Fixed-point reals, in thousandths *)

FP == 10 * 100

Abs(x) == IF x >= 0 THEN x ELSE -x
Min(a, b) == IF a <= b THEN a ELSE b
Max(a, b) == IF a >= b THEN a ELSE b

\* a * b, rounded toward zero (the product of the negated operand is the
\* negated product, as in IEEE arithmetic)
MulFP(a, b) ==
    LET p == a * b
    IN  IF p >= 0 THEN p \div FP ELSE -((-p) \div FP)

\* the value k / 2^32 that rand returns, in thousandths
Frac(k) == (k[1] * FP) \div Half

Pi == 3142

\* Math.sin and Math.cos on the first quadrant, by their Taylor polynomials
SinQ(x) ==
    LET x2 == MulFP(x, x)
        x3 == MulFP(x2, x)
        x5 == MulFP(x3, x2)
        x7 == MulFP(x5, x2)
    IN  x - (x3 \div 6) + (x5 \div 120) - (x7 \div 5040)

CosQ(x) ==
    LET x2 == MulFP(x, x)
        x4 == MulFP(x2, x2)
        x6 == MulFP(x4, x2)
        x8 == MulFP(x6, x2)
    IN  FP - (x2 \div 2) + (x4 \div 24) - (x6 \div 720) + (x8 \div 40320)

\* Math.sin(a), a in thousandths of a radian
RECURSIVE Sin(_)
Sin(a) ==
    IF a < 0 THEN -Sin(-a)
    ELSE LET r == a % (2 * Pi)
             h == Pi \div 2
         IN  IF r <= h THEN SinQ(r)
             ELSE IF r <= Pi THEN SinQ(Pi - r)
             ELSE IF r <= Pi + h THEN -SinQ(r - Pi)
             ELSE -SinQ((2 * Pi) - r)

\* Math.cos(a)
Cos(a) ==
    LET r == Abs(a) % (2 * Pi)
        h == Pi \div 2
    IN  IF r <= h THEN CosQ(r)
        ELSE IF r <= Pi THEN -CosQ(Pi - r)
        ELSE IF r <= Pi + h THEN -CosQ(r - Pi)
        ELSE CosQ((2 * Pi) - r)

-----------------------------------------------------------------------------
(* buildSnowflake2D: the skeleton generator and the six-fold replicator *)

\* A point of the arm is <<x, y>>.  A segment is <<a, b>>.

\* Math.round(x), x in thousandths
Round(x) == (x + 500) \div FP

\* Number(x) || d
OrDefault(x, d) == IF x = 0 THEN d ELSE x

\* levels, clamped one short at the lower end
Levels_lowerBoundZero(complexity) == Max(0, Min(10, Round(complexity)))

\* const levels = Math.max(1, Math.min(10, Math.round(complexity)))
Levels(complexity) == Max(1, Min(10, Round(complexity)))

\* const clampedThickness = Math.max(2, Math.min(20, Number(thickness) || 10))
ClampThickness(thickness) == Max(2 * FP, Min(20 * FP, OrDefault(thickness, 10 * FP)))

MinFeature == 60

\* addPolarSegment: the segment appended and its end point
PolarEnd(start, angle, length) ==
    <<start[1] + MulFP(Cos(angle), length), start[2] + MulFP(Sin(angle), length)>>

\* the closure's first n calls from state t: the state after each call and
\* the numerator of the value it returned
RECURSIVE Stream(_, _)
Stream(t, n) ==
    IF n <= 1 THEN << rand(t) >>
    ELSE LET left == Stream(t, n \div 2)
         IN  left \o Stream(left[Len(left)].t, n - (n \div 2))

\* next(), called when acc.draws calls have been made: the value of call
\* number acc.draws + k
Next(s, acc, k) == Frac(s[acc.draws + k].value)

\* the spine: nodes 1..nodeCount-1, one draw each.  (acc.draws < 0 never
\* holds: it has the accumulator evaluated before the next iteration.)
RECURSIVE Spine(_, _, _, _, _)
Spine(s, acc, i, nodeCount, stepBase) ==
    IF i >= nodeCount \/ acc.draws < 0 THEN acc
    ELSE LET prev == acc.nodes[i]
             step == MulFP(stepBase, 900 + MulFP(Next(s, acc, 1), 200))
             curr == <<prev[1] + step, 0>>
         IN  Spine(s, [draws |-> acc.draws + 1,
                       nodes |-> Append(acc.nodes, curr),
                       arm |-> Append(acc.arm, <<prev, curr>>)],
                   i + 1, nodeCount, stepBase)

\* the two rails of every spine segment
RECURSIVE Rails(_, _, _)
Rails(nodes, i, railOffset) ==
    IF i >= Len(nodes) THEN <<>>
    ELSE <<  <<<<nodes[i][1], railOffset>>, <<nodes[i + 1][1], railOffset>>>>,
             <<<<nodes[i][1], -railOffset>>, <<nodes[i + 1][1], -railOffset>>>>  >>
         \o Rails(nodes, i + 1, railOffset)

\* twigParams: three draws per twig, the first of them call number from + 1
TwigParams(s, from, twigCount) ==
    [j \in 1..twigCount |->
        LET k == j - 1
            at == from + (3 * k)
        IN  [dirScale |-> 420 + MulFP(Frac(s[at + 1].value), 250),
             lenScale |-> MulFP(200 + MulFP(Frac(s[at + 2].value), 180),
                                FP - (k * 140)),
             along |-> 380 + MulFP(500, Frac(s[at + 3].value))]]

\* plateParams: one draw per plate, the first of them call number from + 1
PlateParams(s, from, plateCount) ==
    [j \in 1..plateCount |->
        LET n == j - 1
        IN  [baseAlong |-> 520 + (n * 180),
             ridgeLenScale |-> 180 + MulFP(Frac(s[from + j].value), 140)]]

\* makeSide with the twigs of both sides turned the same way
makeSide_twigsOneWay(sideSign, p, baseBranchAngle, branchLen, twigParams, plateParams) ==
    LET branchAngle == sideSign * baseBranchAngle
        branchEnd == PolarEnd(p, branchAngle, branchLen)
        Along(f) == <<p[1] + MulFP(branchEnd[1] - p[1], f),
                      p[2] + MulFP(branchEnd[2] - p[2], f)>>
        twig(k) ==
            LET dir == branchAngle + MulFP(Pi \div 2, twigParams[k].dirScale)
                twigLen == Max(MinFeature, MulFP(branchLen, twigParams[k].lenScale))
                twigBase == Along(twigParams[k].along)
            IN  <<twigBase, PolarEnd(twigBase, dir, twigLen)>>
        plate(n) ==
            LET ridgeAngle == branchAngle + (sideSign * (Pi \div 2))
                base == Along(plateParams[n].baseAlong)
                ridgeLen == Max(MinFeature, MulFP(branchLen, plateParams[n].ridgeLenScale))
            IN  <<base, PolarEnd(base, ridgeAngle, ridgeLen)>>
    IN  << <<p, branchEnd>> >>
        \o [k \in 1..Len(twigParams) |-> twig(k)]
        \o [n \in 1..Len(plateParams) |-> plate(n)]

\* makeSide with twigs and plates of the length computed, however short
makeSide_unclamped(sideSign, p, baseBranchAngle, branchLen, twigParams, plateParams) ==
    LET branchAngle == sideSign * baseBranchAngle
        branchEnd == PolarEnd(p, branchAngle, branchLen)
        Along(f) == <<p[1] + MulFP(branchEnd[1] - p[1], f),
                      p[2] + MulFP(branchEnd[2] - p[2], f)>>
        twig(k) ==
            LET dir == branchAngle + (sideSign * MulFP(Pi \div 2, twigParams[k].dirScale))
                twigLen == MulFP(branchLen, twigParams[k].lenScale)
                twigBase == Along(twigParams[k].along)
            IN  <<twigBase, PolarEnd(twigBase, dir, twigLen)>>
        plate(n) ==
            LET ridgeAngle == branchAngle + (sideSign * (Pi \div 2))
                base == Along(plateParams[n].baseAlong)
                ridgeLen == MulFP(branchLen, plateParams[n].ridgeLenScale)
            IN  <<base, PolarEnd(base, ridgeAngle, ridgeLen)>>
    IN  << <<p, branchEnd>> >>
        \o [k \in 1..Len(twigParams) |-> twig(k)]
        \o [n \in 1..Len(plateParams) |-> plate(n)]

\* makeSide(sideSign): the branch, then its twigs, then its plates
makeSide(sideSign, p, baseBranchAngle, branchLen, twigParams, plateParams) ==
    LET branchAngle == sideSign * baseBranchAngle
        branchEnd == PolarEnd(p, branchAngle, branchLen)
        Along(f) == <<p[1] + MulFP(branchEnd[1] - p[1], f),
                      p[2] + MulFP(branchEnd[2] - p[2], f)>>
        twig(k) ==
            LET dir == branchAngle + (sideSign * MulFP(Pi \div 2, twigParams[k].dirScale))
                twigLen == Max(MinFeature, MulFP(branchLen, twigParams[k].lenScale))
                twigBase == Along(twigParams[k].along)
            IN  <<twigBase, PolarEnd(twigBase, dir, twigLen)>>
        plate(n) ==
            LET ridgeAngle == branchAngle + (sideSign * (Pi \div 2))
                base == Along(plateParams[n].baseAlong)
                ridgeLen == Max(MinFeature, MulFP(branchLen, plateParams[n].ridgeLenScale))
            IN  <<base, PolarEnd(base, ridgeAngle, ridgeLen)>>
    IN  << <<p, branchEnd>> >>
        \o [k \in 1..Len(twigParams) |-> twig(k)]
        \o [n \in 1..Len(plateParams) |-> plate(n)]

\* the branch attached at node i once the draw against branchProbability has
\* let it through: that draw was call number acc.draws + 1
Branch(s, acc, i, t, inner, levels, thicknessNorm) ==
    LET p == acc.nodes[i + 1]
        angleBase == (Pi \div 3) + MulFP(500 - Min(t, 500), 420)
        baseBranchAngle == angleBase + MulFP(Next(s, acc, 2), Pi \div 15)
        falloff == Max(320, FP - MulFP(Abs(t - 640), 1060))
        branchScale == MulFP(falloff, FP + MulFP(thicknessNorm, 140))
        innerLengthBoost == IF inner THEN 620 ELSE FP
        branchLen ==
            Max(MinFeature,
                MulFP(MulFP(MulFP(540 + (levels * 118), branchScale),
                            950 + MulFP(Next(s, acc, 3), 420)),
                      innerLengthBoost))
        addTwig == Next(s, acc, 4) < 860
        twigCount == IF addTwig
                     THEN 1 + (IF Next(s, acc, 5) < 480 THEN 1 ELSE 0)
                     ELSE 0
        twigsAt == acc.draws + 4 + (IF addTwig THEN 1 ELSE 0)
        platesAt == twigsAt + (3 * twigCount)
        addPlates == Frac(s[platesAt + 1].value) < 750
        second == addPlates /\ levels > 6
        plateCount == IF addPlates
                      THEN 1 + (IF second /\ Frac(s[platesAt + 2].value) < 420
                                THEN 1 ELSE 0)
                      ELSE 0
        ridgesAt == platesAt + 1 + (IF second THEN 1 ELSE 0)
        twigParams == TwigParams(s, twigsAt, twigCount)
        plateParams == PlateParams(s, ridgesAt, plateCount)
    IN  [draws |-> ridgesAt + plateCount,
         nodes |-> acc.nodes,
         branches |-> Append(acc.branches, [node |-> i, twigs |-> twigCount,
                                            plates |-> plateCount]),
         arm |-> acc.arm
                 \o makeSide(1, p, baseBranchAngle, branchLen, twigParams, plateParams)
                 \o makeSide(-1, p, baseBranchAngle, branchLen, twigParams, plateParams)]

\* the branch loop body drawing against branchProbability before t is tested
BranchAt_drawFirst(s, acc, i, nodeCount, levels, thicknessNorm) ==
    LET d == nodeCount - 1
        t == (i * FP) \div d
        branchProbability == Min(950, 580 + (levels * 24))
    IN  IF 100 * i < 28 * d \/ 100 * i > 97 * d THEN [acc EXCEPT !.draws = @ + 1]
        ELSE IF Next(s, acc, 1) > branchProbability
             THEN [acc EXCEPT !.draws = @ + 1]
             ELSE Branch(s, acc, i, t, 100 * i < 45 * d, levels, thicknessNorm)

\* the branch loop body at interior node i (0-based, as in the code)
BranchAt(s, acc, i, nodeCount, levels, thicknessNorm) ==
    LET d == nodeCount - 1
        t == (i * FP) \div d
        branchProbability == Min(950, 580 + (levels * 24))
    IN  IF 100 * i < 28 * d \/ 100 * i > 97 * d THEN acc
        ELSE IF Next(s, acc, 1) > branchProbability
             THEN [acc EXCEPT !.draws = @ + 1]
             ELSE Branch(s, acc, i, t, 100 * i < 45 * d, levels, thicknessNorm)

RECURSIVE Branches(_, _, _, _, _, _)
Branches(s, acc, i, nodeCount, levels, thicknessNorm) ==
    IF i >= nodeCount - 1 \/ acc.draws < 0 THEN acc
    ELSE Branches(s, BranchAt(s, acc, i, nodeCount, levels, thicknessNorm),
                  i + 1, nodeCount, levels, thicknessNorm)

\* the three tip segments
Tip(tip, levels) ==
    LET tipScale == 320 + (levels * 22)
        tipLen == Max(MinFeature, tipScale)
    IN  << <<tip, PolarEnd(tip, MulFP(Pi, 740), tipLen)>>,
           <<tip, PolarEnd(tip, -MulFP(Pi, 740), tipLen)>>,
           <<tip, PolarEnd(tip, Pi, MulFP(tipLen, 440))>> >>

\* A point of the full list is <<xa, xb, ya, yb>>, standing for
\* ((xa + xb * sqrt 3) / 2, (ya + yb * sqrt 3) / 2): the rotations by
\* multiples of 60 degrees are exact on these.
CosTwice(i) == <<2, 1, -1, -2, -1, 1>>[i + 1]        \* 2 cos(i pi / 3)
SinTwice(i) == <<0, 1, 1, 0, -1, -1>>[i + 1]         \* 2 sin(i pi / 3) / sqrt 3

\* angle = i * Math.PI / 2 in place of i * Math.PI / 3
rotatePoint_quarter(point, i) ==
    CASE i % 4 = 0 -> <<2 * point[1], 0, 2 * point[2], 0>>
      [] i % 4 = 1 -> <<-2 * point[2], 0, 2 * point[1], 0>>
      [] i % 4 = 2 -> <<-2 * point[1], 0, -2 * point[2], 0>>
      [] i % 4 = 3 -> <<2 * point[2], 0, -2 * point[1], 0>>

\* rotatePoint(point, angle) for angle = i * Math.PI / 3
rotatePoint(point, i) ==
    <<CosTwice(i) * point[1], -SinTwice(i) * point[2],
      CosTwice(i) * point[2], SinTwice(i) * point[1]>>

\* the replication loop
Replicate(arm) ==
    LET copy(i) == [j \in 1..Len(arm) |->
                       <<rotatePoint(arm[j][1], i), rotatePoint(arm[j][2], i)>>]
    IN  copy(0) \o copy(1) \o copy(2) \o copy(3) \o copy(4) \o copy(5)

\* the spine with its rails
Railed(spine, railOffset) ==
    [draws |-> spine.draws, nodes |-> spine.nodes, branches |-> <<>>,
     arm |-> spine.arm \o Rails(spine.nodes, 1, railOffset)]

\* the arm with the tip segments appended
Tipped(acc, levels) ==
    [acc EXCEPT !.arm = @ \o Tip(acc.nodes[Len(acc.nodes)], levels)]

\* the value returned, with the arm it was replicated from, the branches
\* attached, the state the closure is left in and the number of draws made
Returned(s, acc, levels) ==
    [segments |-> Replicate(acc.arm), arm |-> acc.arm, levels |-> levels,
     nodes |-> acc.nodes, branches |-> acc.branches,
     t |-> s[acc.draws].t, draws |-> acc.draws]

\* the body of buildSnowflake2D, s the values next() will return
Skeleton(s, levels, thicknessNorm) ==
    LET nodeCount == levels + 8
        mainLength == (3 * FP) + (levels * 420)
        stepBase == mainLength \div (nodeCount - 1)
        railOffset == 70 + MulFP(thicknessNorm, 60)
    IN  Returned(s,
            Tipped(Branches(s,
                       Railed(Spine(s, [draws |-> 0, nodes |-> << <<0, 0>> >>,
                                        arm |-> <<>>],
                                    1, nodeCount, stepBase),
                              railOffset),
                       1, nodeCount, levels, thicknessNorm),
                   levels),
            levels)

\* the most calls of next() a skeleton of this many levels can make: one per
\* spine node, fifteen per interior node
MostDraws(levels) == (levels + 7) + (15 * (levels + 6))

\* buildSnowflake2D(rand, complexity, thickness), rand a closure in state t0
buildSnowflake2D(t0, complexity, thickness) ==
    Skeleton(Stream(t0, MostDraws(Levels(complexity))),
             Levels(complexity), ClampThickness(thickness) \div 20)

-----------------------------------------------------------------------------
(* sdfOutline.js: the outline of a set of segments *)

\* the array a loop fills by pushing f[1], ..., f[n]
Array(f) == f \o <<>>

\* function clamp(value, min, max)
clamp(value, min, max) == Max(min, Min(max, value))

\* options.name ?? default
Opt(options, name, default) ==
    IF name \in DOMAIN options THEN options[name] ELSE default

\* n / d in thousandths, rounded toward zero, d # 0
DivFP(n, d) ==
    LET a == Abs(n)
        b == Abs(d)
        q == IF b < 2000000
             THEN ((a \div b) * FP) + (((a % b) * FP) \div b)
             ELSE ((a \div b) * FP) + ((a % b) \div (b \div FP))
    IN  IF (n >= 0) = (d > 0) THEN q ELSE -q

\* Math.ceil(a / b), a >= 0, b > 0
CeilDiv(a, b) == (a + b - 1) \div b

\* the integer square root, by Newton's iteration from x >= sqrt n
RECURSIVE IsqrtFrom(_, _)
IsqrtFrom(n, x) ==
    IF (x + (n \div x)) \div 2 >= x THEN x
    ELSE IsqrtFrom(n, (x + (n \div x)) \div 2)

Isqrt(n) ==
    IF n = 0 THEN 0
    ELSE IsqrtFrom(n, IF n < 65536 THEN 256
                      ELSE IF n < 16777216 THEN 4096 ELSE 46341)

\* Math.hypot(dx, dy)
Hypot(dx, dy) == Isqrt((dx * dx) + (dy * dy))

SetMin(S) == CHOOSE m \in S : \A x \in S : m <= x
SetMax(S) == CHOOSE m \in S : \A x \in S : m >= x

\* function distancePointToSegment(px, py, ax, ay, bx, by); ab2 <= 1e-12
\* is ab2 = 0 on thousandths
distancePointToSegment(px, py, ax, ay, bx, by) ==
    LET abx == bx - ax
        aby == by - ay
        ab2 == (abx * abx) + (aby * aby)
        t == clamp(DivFP(((px - ax) * abx) + ((py - ay) * aby), ab2), 0, FP)
    IN  IF ab2 = 0 THEN Hypot(px - ax, py - ay)
        ELSE Hypot(px - (ax + MulFP(abx, t)), py - (ay + MulFP(aby, t)))

\* function polygonArea(points): twice the signed area is summed, then halved
RECURSIVE CrossSum(_, _, _)
CrossSum(points, lo, hi) ==
    IF lo = hi
    THEN LET p0 == points[lo]
             p1 == points[(lo % Len(points)) + 1]
         IN  (p0[1] * p1[2]) - (p1[1] * p0[2])
    ELSE CrossSum(points, lo, (lo + hi) \div 2)
         + CrossSum(points, ((lo + hi) \div 2) + 1, hi)

polygonArea(points) ==
    IF Len(points) < 3 THEN 0
    ELSE LET twice == CrossSum(points, 1, Len(points))
         IN  IF twice >= 0 THEN twice \div 2 ELSE -((-twice) \div 2)

\* the bounds an empty list gets: a box collapsed on the origin
boundsFromSegments_emptyAtOrigin(segments) ==
    IF Len(segments) = 0
    THEN [minX |-> 0, minY |-> 0, maxX |-> 0, maxY |-> 0]
    ELSE [minX |-> SetMin({segments[i][j][1] : i \in 1..Len(segments), j \in 1..2}),
          minY |-> SetMin({segments[i][j][2] : i \in 1..Len(segments), j \in 1..2}),
          maxX |-> SetMax({segments[i][j][1] : i \in 1..Len(segments), j \in 1..2}),
          maxY |-> SetMax({segments[i][j][2] : i \in 1..Len(segments), j \in 1..2})]

\* function boundsFromSegments(segments)
boundsFromSegments(segments) ==
    IF Len(segments) = 0
    THEN [minX |-> -FP, minY |-> -FP, maxX |-> FP, maxY |-> FP]
    ELSE [minX |-> SetMin({segments[i][j][1] : i \in 1..Len(segments), j \in 1..2}),
          minY |-> SetMin({segments[i][j][2] : i \in 1..Len(segments), j \in 1..2}),
          maxX |-> SetMax({segments[i][j][1] : i \in 1..Len(segments), j \in 1..2}),
          maxY |-> SetMax({segments[i][j][2] : i \in 1..Len(segments), j \in 1..2})]

\* the n points of fallbackPolygon around (cx, cy); the angle
\* (i / n) * Math.PI * 2 is computed with the division last
Ring(cx, cy, r, n) ==
    Array([k \in 1..n |->
        <<cx + MulFP(Cos((2 * Pi * (k - 1)) \div n), r),
          cy + MulFP(Sin((2 * Pi * (k - 1)) \div n), r)>>])

FallbackPoints == 24

FallbackOf(b) ==
    Ring(MulFP(b.minX + b.maxX, 500), MulFP(b.minY + b.maxY, 500),
         MulFP(MulFP(Max(Max(b.maxX - b.minX, b.maxY - b.minY), FP), 500), 1050),
         FallbackPoints)

\* no polygon in place of the fallback
fallbackPolygon_none(segments) == <<>>

\* function fallbackPolygon(segments)
fallbackPolygon(segments) == FallbackOf(boundsFromSegments(segments))

\* function chaikin(points, iterations, cut): one iteration, then all
chaikinStep(loop, cut) ==
    Array([k \in 1..(2 * Len(loop)) |->
        LET p0 == loop[(k + 1) \div 2]
            p1 == loop[(((k + 1) \div 2) % Len(loop)) + 1]
        IN  IF k % 2 = 1
            THEN <<MulFP(FP - cut, p0[1]) + MulFP(cut, p1[1]),
                   MulFP(FP - cut, p0[2]) + MulFP(cut, p1[2])>>
            ELSE <<MulFP(cut, p0[1]) + MulFP(FP - cut, p1[1]),
                   MulFP(cut, p0[2]) + MulFP(FP - cut, p1[2])>>])

RECURSIVE chaikin(_, _, _)
chaikin(points, iterations, cut) ==
    IF iterations <= 0 THEN points
    ELSE chaikin(chaikinStep(points, cut), iterations - 1, cut)

\* simplifyLoop: the test of the for loop's body at index i (1-based)
Removable(loop, i, minEdge, collinearEps) ==
    LET n == Len(loop)
        prev == loop[((i + n - 2) % n) + 1]
        curr == loop[i]
        next == loop[(i % n) + 1]
        l0 == Hypot(curr[1] - prev[1], curr[2] - prev[2])
        l1 == Hypot(next[1] - curr[1], next[2] - curr[2])
        cross == Abs(((curr[1] - prev[1]) * (next[2] - curr[2]))
                     - ((curr[2] - prev[2]) * (next[1] - curr[1])))
    IN  \/ l0 < minEdge
        \/ l1 < minEdge
        \/ cross < CeilDiv(collinearEps * l0 * l1, FP)

\* one turn of the while loop splicing two points out: loop.splice(i, 2)
simplifyPass_spliceTwo(st, minEdge, collinearEps) ==
    IF ~st.changed \/ Len(st.loop) <= 6 THEN [st EXCEPT !.changed = FALSE]
    ELSE LET R == {i \in 1..Len(st.loop) : Removable(st.loop, i, minEdge, collinearEps)}
         IN  IF R = {} THEN [st EXCEPT !.changed = FALSE]
             ELSE [loop |-> SubSeq(st.loop, 1, SetMin(R) - 1)
                            \o SubSeq(st.loop, SetMin(R) + 2, Len(st.loop)),
                   changed |-> TRUE]

\* simplifyLoop: one turn of the while loop, which splices the first
\* removable point out
simplifyPass(st, minEdge, collinearEps) ==
    IF ~st.changed \/ Len(st.loop) <= 6 THEN [st EXCEPT !.changed = FALSE]
    ELSE LET R == {i \in 1..Len(st.loop) : Removable(st.loop, i, minEdge, collinearEps)}
         IN  IF R = {} THEN [st EXCEPT !.changed = FALSE]
             ELSE [loop |-> SubSeq(st.loop, 1, SetMin(R) - 1)
                            \o SubSeq(st.loop, SetMin(R) + 1, Len(st.loop)),
                   changed |-> TRUE]

\* up to n turns of the while loop
RECURSIVE simplifyTurns(_, _, _, _)
simplifyTurns(st, n, minEdge, collinearEps) ==
    IF ~st.changed THEN st
    ELSE IF n <= 1 THEN simplifyPass(st, minEdge, collinearEps)
    ELSE simplifyTurns(simplifyTurns(st, n \div 2, minEdge, collinearEps),
                       n - (n \div 2), minEdge, collinearEps)

\* function simplifyLoop(points, minEdge, collinearEps): the while loop ends
\* within points.length turns, each turn but the last removing a point
simplifyLoop(points, minEdge, collinearEps) ==
    IF Len(points) < 6 THEN points
    ELSE simplifyTurns([loop |-> points, changed |-> TRUE], Len(points),
                       minEdge, collinearEps).loop

\* interp(a, b) of interpolateEdgeNode; Math.abs(denom) < 1e-12 is
\* denom = 0 on thousandths
interp(a, b) == IF b - a = 0 THEN 500 ELSE clamp(DivFP(-a, b - a), 0, FP)

\* the significant bits a number keeps (53 in the code's doubles): sums and
\* products below 2^MantissaBits thousandths are exact, larger ones are
\* rounded to the nearest number of MantissaBits bits, ties to even
MantissaBits == 24

Exact == 2 ^ MantissaBits

\* the distance between neighbouring numbers at magnitude a
RECURSIVE Ulp(_)
Ulp(a) == IF a < Exact THEN 1 ELSE 2 * Ulp(a \div 2)

\* the rounding of the result of one arithmetic operation
Rounded(v) ==
    IF Abs(v) < Exact THEN v
    ELSE LET u == Ulp(Abs(v))
             q == Abs(v) \div u
             r == Abs(v) % u
             m == IF (2 * r) > u \/ ((2 * r) = u /\ (q % 2) = 1) THEN q + 1 ELSE q
         IN  IF v < 0 THEN -(m * u) ELSE m * u

\* the template literal without its underscores
Key_bare(letter, ix, iy) == letter \o ToString(ix) \o ToString(iy)

\* the template literals `h_${ix}_${iy}`, `v_${ix}_${iy}`, `p_${ix}_${iy}`
Key(letter, ix, iy) == letter \o "_" \o ToString(ix) \o "_" \o ToString(iy)

\* function interpolateEdgeNode(ix, iy, x, y, cellSize, edgeId, v0, v1, v2, v3)
interpolateEdgeNode(ix, iy, x, y, cellSize, edgeId, v0, v1, v2, v3) ==
    CASE edgeId = 0 -> [key |-> Key("h", ix, iy),
                        point |-> <<Rounded(x + MulFP(interp(v0, v1), cellSize)), y>>]
      [] edgeId = 1 -> [key |-> Key("v", ix + 1, iy),
                        point |-> <<Rounded(x + cellSize),
                                    Rounded(y + MulFP(interp(v1, v2), cellSize))>>]
      [] edgeId = 2 -> [key |-> Key("h", ix, iy + 1),
                        point |-> <<Rounded(x + MulFP(interp(v3, v2), cellSize)),
                                    Rounded(y + cellSize)>>]
      [] edgeId = 3 -> [key |-> Key("v", ix, iy),
                        point |-> <<x, Rounded(y + MulFP(interp(v0, v3), cellSize))>>]
      [] OTHER -> [key |-> Key("p", ix, iy), point |-> <<x, y>>]

\* caseToEdgePairs with the pair of mask 9 at mask 12
caseToEdgePairs_twelve(mask, centerValue) ==
    CASE mask = 1 -> << <<3, 0>> >>
      [] mask = 2 -> << <<0, 1>> >>
      [] mask = 3 -> << <<3, 1>> >>
      [] mask = 4 -> << <<1, 2>> >>
      [] mask = 5 -> IF centerValue < 0 THEN << <<3, 0>>, <<1, 2>> >>
                     ELSE << <<3, 2>>, <<0, 1>> >>
      [] mask = 6 -> << <<0, 2>> >>
      [] mask = 7 -> << <<3, 2>> >>
      [] mask = 8 -> << <<2, 3>> >>
      [] mask = 9 -> << <<0, 2>> >>
      [] mask = 10 -> IF centerValue < 0 THEN << <<0, 1>>, <<2, 3>> >>
                      ELSE << <<3, 0>>, <<1, 2>> >>
      [] mask = 11 -> << <<1, 2>> >>
      [] mask = 12 -> << <<0, 2>> >>
      [] mask = 13 -> << <<0, 1>> >>
      [] mask = 14 -> << <<3, 0>> >>
      [] OTHER -> <<>>

\* function caseToEdgePairs(mask, centerValue)
caseToEdgePairs(mask, centerValue) ==
    CASE mask = 1 -> << <<3, 0>> >>
      [] mask = 2 -> << <<0, 1>> >>
      [] mask = 3 -> << <<3, 1>> >>
      [] mask = 4 -> << <<1, 2>> >>
      [] mask = 5 -> IF centerValue < 0 THEN << <<3, 0>>, <<1, 2>> >>
                     ELSE << <<3, 2>>, <<0, 1>> >>
      [] mask = 6 -> << <<0, 2>> >>
      [] mask = 7 -> << <<3, 2>> >>
      [] mask = 8 -> << <<2, 3>> >>
      [] mask = 9 -> << <<0, 2>> >>
      [] mask = 10 -> IF centerValue < 0 THEN << <<0, 1>>, <<2, 3>> >>
                      ELSE << <<3, 0>>, <<1, 2>> >>
      [] mask = 11 -> << <<1, 2>> >>
      [] mask = 12 -> << <<1, 3>> >>
      [] mask = 13 -> << <<0, 1>> >>
      [] mask = 14 -> << <<3, 0>> >>
      [] OTHER -> <<>>

\* buildLoopsFromSegments: byKey.get(key), the indices of the contour
\* segments that end on key, in the order they were pushed
byKey(cs, key) == {i \in 1..Len(cs) : cs[i].a.key = key \/ cs[i].b.key = key}

\* keyToPoint.get(key): the point of the first node stored under key
keyToPoint(cs, key) ==
    LET i == SetMin(byKey(cs, key))
    IN  IF cs[i].a.key = key THEN cs[i].a.point ELSE cs[i].b.point

\* walkTurn without the test of used[n.segmentIndex]
walkTurn_reuse(cs, w) ==
    IF w.stop THEN w
    ELSE IF w.safety <= 0 \/ w.currentKey = w.loopKeys[1]
    THEN [w EXCEPT !.stop = TRUE]
    ELSE LET N == {i \in byKey(cs, w.currentKey) :
                      i # w.currentSegIndex}
         IN  IF N = {} THEN [w EXCEPT !.stop = TRUE, !.safety = @ - 1]
             ELSE LET found == SetMin(N)
                      nextKey == IF cs[found].a.key = w.currentKey
                                 THEN cs[found].b.key ELSE cs[found].a.key
                  IN  [used |-> w.used \cup {found},
                       loopKeys |-> Append(w.loopKeys, nextKey),
                       currentKey |-> nextKey,
                       currentSegIndex |-> found,
                       safety |-> w.safety - 1,
                       stop |-> FALSE]

\* one turn of the while loop that walks from currentKey
walkTurn(cs, w) ==
    IF w.stop THEN w
    ELSE IF w.safety <= 0 \/ w.currentKey = w.loopKeys[1]
    THEN [w EXCEPT !.stop = TRUE]
    ELSE LET N == {i \in byKey(cs, w.currentKey) :
                      i # w.currentSegIndex /\ i \notin w.used}
         IN  IF N = {} THEN [w EXCEPT !.stop = TRUE, !.safety = @ - 1]
             ELSE LET found == SetMin(N)
                      nextKey == IF cs[found].a.key = w.currentKey
                                 THEN cs[found].b.key ELSE cs[found].a.key
                  IN  [used |-> w.used \cup {found},
                       loopKeys |-> Append(w.loopKeys, nextKey),
                       currentKey |-> nextKey,
                       currentSegIndex |-> found,
                       safety |-> w.safety - 1,
                       stop |-> FALSE]

RECURSIVE walkTurns(_, _, _)
walkTurns(cs, w, n) ==
    IF w.stop THEN w
    ELSE IF n <= 1 THEN walkTurn(cs, w)
    ELSE walkTurns(cs, walkTurns(cs, w, n \div 2), n - (n \div 2))

\* the local variables of the outer for loop's body before the while loop
walkStart(cs, used, i) ==
    [used |-> used \cup {i},
     loopKeys |-> <<cs[i].a.key, cs[i].b.key>>,
     currentKey |-> cs[i].b.key,
     currentSegIndex |-> i,
     safety |-> 3 * Len(cs),
     stop |-> FALSE]

\* the walk that starts on contour segment i
walk(cs, used, i) == walkTurns(cs, walkStart(cs, used, i), (3 * Len(cs)) + 1)

\* kept without loopKeys.pop()
kept_closed(cs, st, w) ==
    [used |-> w.used,
     loops |-> IF Len(w.loopKeys) >= 4 /\ w.loopKeys[1] = w.loopKeys[Len(w.loopKeys)]
               THEN Append(st.loops,
                           Array([k \in 1..Len(w.loopKeys) |->
                                     keyToPoint(cs, w.loopKeys[k])]))
               ELSE st.loops]

\* the walk's loopKeys kept as a loop of points, if it closed
kept(cs, st, w) ==
    [used |-> w.used,
     loops |-> IF Len(w.loopKeys) >= 4 /\ w.loopKeys[1] = w.loopKeys[Len(w.loopKeys)]
               THEN Append(st.loops,
                           Array([k \in 1..(Len(w.loopKeys) - 1) |->
                                     keyToPoint(cs, w.loopKeys[k])]))
               ELSE st.loops]

\* the body of the outer for loop at contour segments lo..hi
RECURSIVE loopsFrom(_, _, _, _)
loopsFrom(cs, st, lo, hi) ==
    IF lo = hi
    THEN IF lo \in st.used THEN st ELSE kept(cs, st, walk(cs, st.used, lo))
    ELSE loopsFrom(cs, loopsFrom(cs, st, lo, (lo + hi) \div 2),
                   ((lo + hi) \div 2) + 1, hi)

\* function buildLoopsFromSegments(contourSegments)
buildLoopsFromSegments(contourSegments) ==
    IF Len(contourSegments) = 0 THEN <<>>
    ELSE loopsFrom(contourSegments, [used |-> {}, loops |-> <<>>],
                   1, Len(contourSegments)).loops

\* the field is sampled on one cell in GridScale of the code's grid
GridScale == 20

\* segmentsToPolygon: radius (1e-6, the least width and height, is 0 on
\* thousandths; the product is divided last)
Radius(b, options) ==
    Max(20, (clamp(Opt(options, "radiusMm", 2500), 800, 12 * FP)
             * Max(Max(b.maxX - b.minX, b.maxY - b.minY), 0))
            \div Opt(options, "targetDiameterMm", 110 * FP))

\* segmentsToPolygon: minX, minY, cellSize, nx, ny
Grid(b, radius, resolution) ==
    LET pad == MulFP(radius, 2500)
        spanX == (b.maxX + pad) - (b.minX - pad)
        spanY == (b.maxY + pad) - (b.minY - pad)
        cellSize == Max(spanX, spanY) \div (resolution \div GridScale)
    IN  [minX |-> b.minX - pad, minY |-> b.minY - pad, cellSize |-> cellSize,
         nx |-> Max(2, CeilDiv(spanX, cellSize)),
         ny |-> Max(2, CeilDiv(spanY, cellSize)),
         radius |-> radius]

\* segmentsToPolygon: the field, field[idx(ix, iy) + 1] for
\* idx = iy * (nx + 1) + ix (the rounding of Float32Array is left out)
Field(segments, g) ==
    Array([k \in 1..((g.nx + 1) * (g.ny + 1)) |->
        SetMin({distancePointToSegment(
                    Rounded(g.minX + (((k - 1) % (g.nx + 1)) * g.cellSize)),
                    Rounded(g.minY + (((k - 1) \div (g.nx + 1)) * g.cellSize)),
                    segments[n][1][1], segments[n][1][2],
                    segments[n][2][1], segments[n][2][2]) : n \in 1..Len(segments)})
        - g.radius])

\* if (v0 < 0) mask |= 1; ...
Mask(v0, v1, v2, v3) ==
    (IF v0 < 0 THEN 1 ELSE 0) + (IF v1 < 0 THEN 2 ELSE 0)
    + (IF v2 < 0 THEN 4 ELSE 0) + (IF v3 < 0 THEN 8 ELSE 0)

\* the contour segments pushed for cell (ix, iy) with corner values v0..v3
CornerSegments(g, ix, iy, v0, v1, v2, v3) ==
    LET x == Rounded(g.minX + (ix * g.cellSize))
        y == Rounded(g.minY + (iy * g.cellSize))
        \* 0.25 * (v0 + v1 + v2 + v3), rounded down: only its sign is used
        pairs == caseToEdgePairs(Mask(v0, v1, v2, v3), (v0 + v1 + v2 + v3) \div 4)
    IN  [p \in 1..Len(pairs) |->
            [a |-> interpolateEdgeNode(ix, iy, x, y, g.cellSize, pairs[p][1],
                                       v0, v1, v2, v3),
             b |-> interpolateEdgeNode(ix, iy, x, y, g.cellSize, pairs[p][2],
                                       v0, v1, v2, v3)]]

CellSegments(g, field, ix, iy) ==
    CornerSegments(g, ix, iy,
                   field[(iy * (g.nx + 1)) + ix + 1],
                   field[(iy * (g.nx + 1)) + ix + 2],
                   field[((iy + 1) * (g.nx + 1)) + ix + 2],
                   field[((iy + 1) * (g.nx + 1)) + ix + 1])

\* the contour segments of cells lo..hi, cell c being (c % nx, c \div nx)
RECURSIVE ContourSegments(_, _, _, _)
ContourSegments(g, field, lo, hi) ==
    IF lo = hi THEN CellSegments(g, field, lo % g.nx, lo \div g.nx) \o <<>>
    ELSE ContourSegments(g, field, lo, (lo + hi) \div 2)
         \o ContourSegments(g, field, ((lo + hi) \div 2) + 1, hi)

\* the loop of the largest absolute area, the first of them on a tie
MainLoop(loops) ==
    loops[SetMin({i \in 1..Len(loops) :
                     \A j \in 1..Len(loops) :
                         Abs(polygonArea(loops[j])) <= Abs(polygonArea(loops[i]))})]

Reverse(seq) == [k \in 1..Len(seq) |-> seq[Len(seq) + 1 - k]]

\* the refined loop returned wound counter-clockwise and left open
Finished_open(loop, cellSize) ==
    IF polygonArea(loop) < 0 THEN Array(Reverse(loop)) ELSE loop

\* the refined loop returned as it was wound, then closed
Finished_asWound(loop, cellSize) ==
    IF Hypot(loop[1][1] - loop[Len(loop)][1],
             loop[1][2] - loop[Len(loop)][2]) > MulFP(cellSize, 250)
    THEN Append(loop, loop[1])
    ELSE loop

\* the refined loop returned: wound counter-clockwise, then closed
Finished(loop, cellSize) ==
    LET wound == IF polygonArea(loop) < 0 THEN Array(Reverse(loop)) ELSE loop
    IN  IF Hypot(wound[1][1] - wound[Len(wound)][1],
                 wound[1][2] - wound[Len(wound)][2]) > MulFP(cellSize, 250)
        THEN Append(wound, wound[1])
        ELSE wound

\* What segmentsToPolygon returns is [path, polygon, contours, loops,
\* refined]: the return statement taken, the polygon returned, and how many
\* contour segments, closed loops and refined points there were on the way.

\* the refined loop is returned from six points on
Refined_sixPoints(segments, g, loop) ==
    IF Len(loop) < 6
    THEN [path |-> "short", polygon |-> fallbackPolygon(segments),
          contours |-> 0, loops |-> 0, refined |-> Len(loop)]
    ELSE [path |-> "loop", polygon |-> Finished(loop, g.cellSize),
          contours |-> 0, loops |-> 0, refined |-> Len(loop)]

\* segmentsToPolygon from the refined loop on
Refined(segments, g, loop) ==
    IF Len(loop) < 8
    THEN [path |-> "short", polygon |-> fallbackPolygon(segments),
          contours |-> 0, loops |-> 0, refined |-> Len(loop)]
    ELSE [path |-> "loop", polygon |-> Finished(loop, g.cellSize),
          contours |-> 0, loops |-> 0, refined |-> Len(loop)]

\* segmentsToPolygon from the loops on
Chosen(segments, g, loops, smoothingIterations) ==
    IF Len(loops) = 0
    THEN [path |-> "noLoop", polygon |-> fallbackPolygon(segments),
          contours |-> 0, loops |-> 0, refined |-> 0]
    ELSE [Refined(segments, g,
                  simplifyLoop(chaikin(MainLoop(loops), smoothingIterations, 120),
                               MulFP(g.cellSize, 220), 12))
             EXCEPT !.loops = Len(loops)]

\* segmentsToPolygon from the contour segments on
Contoured(segments, g, contourSegments, smoothingIterations) ==
    IF Len(contourSegments) < 3
    THEN [path |-> "fewSegments", polygon |-> fallbackPolygon(segments),
          contours |-> Len(contourSegments), loops |-> 0, refined |-> 0]
    ELSE [Chosen(segments, g, buildLoopsFromSegments(contourSegments),
                 smoothingIterations)
             EXCEPT !.contours = Len(contourSegments)]

\* segmentsToPolygon on a grid g
Outlined(segments, g, smoothingIterations) ==
    Contoured(segments, g,
              ContourSegments(g, Field(segments, g), 0, (g.nx * g.ny) - 1),
              smoothingIterations)

\* export function segmentsToPolygon(segments, options).  segments is
\* [isArray, items]; options maps the names of the options given to their
\* values.  With targetDiameterMm = 0 radius is Infinity and nx is NaN: the
\* field is empty and no cell is visited.
segmentsToPolygon(segments, options) ==
    IF ~segments.isArray \/ Len(segments.items) = 0
    THEN [path |-> "empty", polygon |-> fallbackPolygon(<<>>),
          contours |-> 0, loops |-> 0, refined |-> 0]
    ELSE IF Opt(options, "targetDiameterMm", 110 * FP) = 0
    THEN Contoured(segments.items, [cellSize |-> 0], <<>>, 0)
    ELSE Outlined(segments.items,
                  Grid(boundsFromSegments(segments.items),
                       Radius(boundsFromSegments(segments.items), options),
                       clamp(Opt(options, "gridResolution", 200), 160, 240)),
                  clamp(Opt(options, "smoothingIterations", 2), 1, 3))

\* the grid and the contour segments segmentsToPolygon comes to
GridOf(segments, options) ==
    Grid(boundsFromSegments(segments),
         Radius(boundsFromSegments(segments), options),
         clamp(Opt(options, "gridResolution", 200), 160, 240))

ContoursOf(segments, options) ==
    ContourSegments(GridOf(segments, options),
                    Field(segments, GridOf(segments, options)),
                    0, (GridOf(segments, options).nx * GridOf(segments, options).ny) - 1)

-----------------------------------------------------------------------------
(* App.jsx: the mesh front end *)

\* sqrt 3, in thousandths
Sqrt3 == 1732

\* the number (a + b * sqrt 3) / 2 that a coordinate of the full list stands for
Value(a, b) ==
    LET n == (a * FP) + (b * Sqrt3)
    IN  IF n >= 0 THEN n \div (2 * FP) ELSE -((-n) \div (2 * FP))

\* the segments of geometry2d.segments as pairs of [x, y]
Numeric(segments) ==
    Array([k \in 1..Len(segments) |->
              << <<Value(segments[k][1][1], segments[k][1][2]),
                   Value(segments[k][1][3], segments[k][1][4])>>,
                 <<Value(segments[k][2][1], segments[k][2][2]),
                   Value(segments[k][2][3], segments[k][2][4])>> >>])

\* the arc tangent of z in [0, tan(pi / 8)], by its Taylor polynomial
AtanSmall(z) ==
    LET z2 == MulFP(z, z)
        z3 == MulFP(z2, z)
        z5 == MulFP(z3, z2)
        z7 == MulFP(z5, z2)
    IN  z - (z3 \div 3) + (z5 \div 5) - (z7 \div 7)

\* the arc tangent of z in [0, 1]: twice that of z / (1 + sqrt(1 + z^2))
AtanUnit(z) == 2 * AtanSmall(DivFP(z, FP + Hypot(FP, z)))

\* Math.atan2(y, x)
Atan2(y, x) ==
    IF x = 0 /\ y = 0 THEN 0
    ELSE LET base == IF Abs(y) <= Abs(x)
                     THEN AtanUnit(DivFP(Abs(y), Abs(x)))
                     ELSE (Pi \div 2) - AtanUnit(DivFP(Abs(x), Abs(y)))
             angle == IF x >= 0 THEN base ELSE Pi - base
         IN  IF y < 0 THEN -angle ELSE angle

\* angleInWedge: theta brought into [-pi, pi] by the two while loops
RECURSIVE Wrapped(_)
Wrapped(t) ==
    IF t > Pi THEN Wrapped(t - (2 * Pi))
    ELSE IF t < -Pi THEN Wrapped(t + (2 * Pi))
    ELSE t

\* function angleInWedge(theta, halfAngle)
angleInWedge(theta, halfAngle) == Abs(Wrapped(theta)) <= halfAngle

\* function distanceSegmentToOrigin(a, b); ab2 < 1e-12 is ab2 = 0 on thousandths
distanceSegmentToOrigin(a, b) ==
    LET abx == b[1] - a[1]
        aby == b[2] - a[2]
        ab2 == (abx * abx) + (aby * aby)
        t == clamp(DivFP(-((a[1] * abx) + (a[2] * aby)), ab2), 0, FP)
    IN  IF ab2 = 0 THEN Hypot(a[1], a[2])
        ELSE Hypot(a[1] + MulFP(abx, t), a[2] + MulFP(aby, t))

\* 0x45d9f3b
CoreSalt == <<1117, 40763>>

\* the five values coreRand() returns, in the order of the calls
CoreStream(seed) == Stream(mulberry32(ToUint32(Xor(seed, CoreSalt))), 5)

\* Math.max(0, complexity - 6)
Excess(complexity) == Max(0, complexity - (6 * FP))

\* buildCoreMaskParams from the values of coreRand() on
CoreParams(s, thickness, complexity) ==
    [useHex |-> Frac(s[1].value) < 320,
     baseR |-> 1050 + MulFP(thickness, 40) + MulFP(Excess(complexity), 160),
     phase |-> MulFP(Frac(s[2].value), 2 * Pi),
     amp1 |-> 80 + MulFP(Frac(s[3].value), 120),
     amp2 |-> 20 + MulFP(Frac(s[4].value), 60),
     skew |-> MulFP(Frac(s[5].value) - 500, 220)]

\* function buildCoreMaskParams(seed, thickness, complexity)
buildCoreMaskParams(seed, thickness, complexity) ==
    CoreParams(CoreStream(seed), thickness, complexity)

\* function coreRadiusAtAngle(theta, params)
coreRadiusAtAngle(theta, params) ==
    LET t == theta + params.phase
    IN  IF params.useHex
        THEN MulFP(MulFP(MulFP(params.baseR, 860 + MulFP(params.amp1, 700)),
                         DivFP(FP, Max(400, Cos((Pi \div 6)
                                                - ((t + (8 * Pi)) % (Pi \div 3)))))),
                   620)
        ELSE MulFP(MulFP(params.baseR, 940),
                   FP + MulFP(params.amp1, Cos(6 * (t + params.skew)))
                      + MulFP(params.amp2, Cos((12 * t) + MulFP(params.skew, 1700))))

\* segmentOutsideCoreMask: the sample p lies outside
OutsideAt(p, params, margin) ==
    Hypot(p[1], p[2]) >= coreRadiusAtAngle(Atan2(p[2], p[1]), params) + margin

\* function segmentOutsideCoreMask(a, b, params, margin)
segmentOutsideCoreMask(a, b, params, margin) ==
    /\ OutsideAt(a, params, margin)
    /\ OutsideAt(<<MulFP(a[1] + b[1], 500), MulFP(a[2] + b[2], 500)>>, params, margin)
    /\ OutsideAt(b, params, margin)

WedgeMargin == 110

\* the test of the filter that yields branchWedgeSegments
InBranchWedge(a, b, params, margin) ==
    /\ angleInWedge(Atan2(a[2], a[1]), (Pi \div 6) - WedgeMargin)
    /\ angleInWedge(Atan2(b[2], b[1]), (Pi \div 6) - WedgeMargin)
    /\ segmentOutsideCoreMask(a, b, params, margin)
    /\ distanceSegmentToOrigin(a, b) >= 950

\* branchWedgeSegments
BranchWedgeSegments(segments, params, margin) ==
    SelectSeq(segments, LAMBDA seg : InBranchWedge(seg[1], seg[2], params, margin))

\* Math.exp(x) for x <= 0: x = r - k ln 2 with r in (-ln 2, 0], the Taylor
\* polynomial of exp at r, halved k times
Ln2 == 693

ExpSmall(r) ==
    LET r2 == MulFP(r, r)
        r3 == MulFP(r2, r)
        r4 == MulFP(r2, r2)
        r5 == MulFP(r4, r)
    IN  FP + r + (r2 \div 2) + (r3 \div 6) + (r4 \div 24) + (r5 \div 120)

RECURSIVE Halved(_, _)
Halved(v, k) == IF k = 0 \/ v = 0 THEN v ELSE Halved(v \div 2, k - 1)

Exp(x) == Halved(ExpSmall(-((-x) % Ln2)), (-x) \div Ln2)

\* Math.log(x) for x in (0, 1]: x doubled until it is above 1/2, then
\* 2 atanh((m - 1) / (m + 1)) by its Taylor polynomial
LnUnit(m) ==
    LET u == DivFP(m - FP, m + FP)
        u2 == MulFP(u, u)
        u3 == MulFP(u2, u)
        u5 == MulFP(u3, u2)
    IN  2 * (u + (u3 \div 3) + (u5 \div 5))

RECURSIVE Ln(_)
Ln(x) == IF 2 * x > FP THEN LnUnit(x) ELSE Ln(2 * x) - Ln2

\* Math.pow(x, y) for x in [0, 1] and y > 0
Pow(x, y) == IF x <= 0 THEN 0 ELSE Exp(MulFP(y, Ln(x)))

\* function shortestAngleDiff(a, b)
RECURSIVE shortestAngleDiff(_, _)
shortestAngleDiff(a, b) ==
    IF a - b > Pi THEN shortestAngleDiff(a - (2 * Pi), b)
    ELSE IF a - b < -Pi THEN shortestAngleDiff(a + (2 * Pi), b)
    ELSE a - b

\* function hash01(value): the fraction of sin(value * 127.1 + 311.7) *
\* 43758.5453123.  The digits of the sine that the product brings forward
\* are beyond thousandths, so this is a value of [0, 1) that the argument
\* determines, not the value the doubles give.
hash01(value) ==
    ((Sin(((value * 1271) \div 10) + 311700) * 43758)
     + MulFP(Sin(((value * 1271) \div 10) + 311700), 545)) % FP

\* analyzeSegments: twigness, from delta and len
Twigness(delta, len) ==
    clamp(MulFP(Pow(clamp(DivFP(delta, Pi \div 3), 0, FP), 1150), 750)
          + MulFP(clamp(FP - DivFP(len, 1350), 0, FP), 350),
          0, FP)

\* analyzeSegments: localJitter
LocalJitter(r, len, delta) ==
    hash01((Round(r * 37) * 730) + (Round(len * 41) * 1130)
           + (Round(delta * 500) * 290))

\* analyzeSegments: depthScale, from twigness and localJitter
DepthScale(twigness, localJitter) ==
    clamp((1280 - MulFP(twigness, 620))
          + MulFP(twigness, MulFP(localJitter - 500, 700)),
          580, 1450)

\* analyzeSegments: delta, the distance of theta from the nearest axis
AxisDelta(theta) ==
    Abs(shortestAngleDiff(theta, Round(DivFP(theta, Pi \div 3)) * (Pi \div 3)))

\* analyzeSegments: the body of the loop, from len and the midpoint on
Analyzed(a, b, len, mx, my) ==
    [a |-> a, b |-> b,
     depthScale |-> DepthScale(Twigness(AxisDelta(Atan2(my, mx)), len),
                               LocalJitter(Hypot(mx, my), len,
                                           AxisDelta(Atan2(my, mx))))]

\* function analyzeSegments(segments); 1e-8 is 0 on thousandths
analyzeSegments(segments) ==
    Array([i \in 1..Len(segments) |->
              Analyzed(segments[i][1], segments[i][2],
                       Max(0, Hypot(segments[i][2][1] - segments[i][1][1],
                                    segments[i][2][2] - segments[i][1][2])),
                       MulFP(segments[i][1][1] + segments[i][2][1], 500),
                       MulFP(segments[i][1][2] + segments[i][2][2], 500))])

\* buildSnowflakeMeshFromSegments: effectiveThickness
EffectiveThickness(thickness) ==
    clamp(OrDefault(thickness, 10 * FP), 2 * FP, 20 * FP) \div 3

\* applySurfaceRelief: the distance of (x, y) from each analyzed segment
SegmentDistances(analyzed, x, y) ==
    Array([s \in 1..Len(analyzed) |->
              distancePointToSegment(x, y, analyzed[s].a[1], analyzed[s].a[2],
                                     analyzed[s].b[1], analyzed[s].b[2])])

\* applySurfaceRelief: the segment that sets bestDist and bestScale, the
\* first of those at the least distance (d < bestDist)
Nearest(d) == SetMin({s \in 1..Len(d) : \A u \in 1..Len(d) : d[s] <= d[u]})

\* applySurfaceRelief: targetHalfDepth
TargetHalfDepth(depth, bestDist, bestScale) ==
    Max(MulFP(depth, 180),
        MulFP(MulFP(depth, 500),
              FP + MulFP(bestScale - FP, Exp(-MulFP(bestDist, 2100)))))

\* the vertex set to targetHalfDepth on the upper side whatever its side
Relieved_upperSide(analyzed, depth, v, d) ==
    IF Abs(v[3]) < MulFP(depth, 320) THEN v
    ELSE <<v[1], v[2],
           TargetHalfDepth(depth, d[Nearest(d)], analyzed[Nearest(d)].depthScale)>>

\* applySurfaceRelief: the vertex v = <<x, y, z>> as the loop leaves it
Relieved(analyzed, depth, v, d) ==
    IF Abs(v[3]) < MulFP(depth, 320) THEN v
    ELSE <<v[1], v[2],
           (IF v[3] >= 0 THEN 1 ELSE -1)
           * TargetHalfDepth(depth, d[Nearest(d)], analyzed[Nearest(d)].depthScale)>>

\* applySurfaceRelief(geometry, segments, depth), on the positions of geometry
ReliefOver(position, analyzed, depth) ==
    Array([i \in 1..Len(position) |->
              Relieved(analyzed, depth, position[i],
                       SegmentDistances(analyzed, position[i][1], position[i][2]))])

applySurfaceRelief(position, segments, depth) ==
    IF Len(segments) = 0 THEN position
    ELSE ReliefOver(position, analyzeSegments(segments), depth)

\* the outline without the closing point that repeats its first point
Contour(polygon) ==
    IF Len(polygon) >= 2 /\ polygon[1] = polygon[Len(polygon)]
    THEN SubSeq(polygon, 1, Len(polygon) - 1)
    ELSE polygon

\* new THREE.ExtrudeGeometry(shape, {depth, steps: 1}), translated by
\* -depth * 0.5: the positions of the vertices, the contour at the bottom
\* cap, then at the top cap
ExtrudeGeometry(contour, depth) ==
    Array([k \in 1..(2 * Len(contour)) |->
              IF k <= Len(contour)
              THEN <<contour[k][1], contour[k][2], -MulFP(depth, 500)>>
              ELSE <<contour[k - Len(contour)][1], contour[k - Len(contour)][2],
                     depth - MulFP(depth, 500)>>])

\* the triangles of the extrusion of a contour of n points: n - 2 on each
\* cap, two on each side wall
Triangles(n) == (2 * (n - 2)) + (2 * n)

\* geometry.computeBoundingBox(); the box of no vertex is the empty box,
\* whose centre and size are zero
BoundingBox(position) ==
    IF Len(position) = 0 THEN [min |-> <<0, 0, 0>>, max |-> <<0, 0, 0>>]
    ELSE
    [min |-> <<SetMin({position[i][1] : i \in 1..Len(position)}),
               SetMin({position[i][2] : i \in 1..Len(position)}),
               SetMin({position[i][3] : i \in 1..Len(position)})>>,
     max |-> <<SetMax({position[i][1] : i \in 1..Len(position)}),
               SetMax({position[i][2] : i \in 1..Len(position)}),
               SetMax({position[i][3] : i \in 1..Len(position)})>>]

\* geometry.translate(-center.x, -center.y, -center.z)
Translated(position, c) ==
    Array([i \in 1..Len(position) |->
              <<position[i][1] - c[1], position[i][2] - c[2], position[i][3] - c[3]>>])

\* boundingBox.getCenter(center)
Center(box) ==
    <<MulFP(box.min[1] + box.max[1], 500), MulFP(box.min[2] + box.max[2], 500),
      MulFP(box.min[3] + box.max[3], 500)>>

\* geometry.boundingBox.getCenter(center); geometry.translate(...)
Centered(position) == Translated(position, Center(BoundingBox(position)))

\* buildSnowflakeMeshFromSegments from the polygon on
Shaped(segments, effectiveThickness, radiusMm, polygon, depth) ==
    [effectiveThickness |-> effectiveThickness,
     radiusMm |-> radiusMm,
     polygon |-> polygon,
     depth |-> depth,
     position |-> Centered(applySurfaceRelief(
                               ExtrudeGeometry(Contour(polygon), depth),
                               segments, depth)),
     triangles |-> Triangles(Len(Contour(polygon)))]

\* buildSnowflakeMeshFromSegments from radiusMm on
Outlining(segments, effectiveThickness, radiusMm) ==
    Shaped(segments, effectiveThickness, radiusMm,
           segmentsToPolygon(
               [isArray |-> TRUE, items |-> segments],
               [gridResolution |-> 200, smoothingIterations |-> 2,
                radiusMm |-> radiusMm, targetDiameterMm |-> 110 * FP]).polygon,
           Max(1400, MulFP(effectiveThickness, 720)))

\* buildSnowflakeMeshFromSegments from effectiveThickness on
Extruded(segments, effectiveThickness) ==
    Outlining(segments, effectiveThickness,
              clamp(160 + MulFP(effectiveThickness, 30), 200, 900))

\* function buildSnowflakeMeshFromSegments(segments, thickness)
buildSnowflakeMeshFromSegments(segments, thickness) ==
    Extruded(segments, EffectiveThickness(thickness))

\* makeSnowflakeMeshGeometry: safeThickness
SafeThickness(thickness) == Max(2 * FP, Min(20 * FP, OrDefault(thickness, 10 * FP)))

\* makeSnowflakeMeshGeometry: coreMargin
CoreMargin(safeThickness, complexity) ==
    220 + MulFP(safeThickness, 10) + MulFP(Excess(complexity), 60)

\* makeSnowflakeMeshGeometry: targetDiameterMm
TargetDiameterMm(sizeInches) == MulFP(Max(FP, OrDefault(sizeInches, 3 * FP)), 25400)

\* const rand = mulberry32(seed), were the closure an earlier invocation
\* left behind taken instead
Generator_leftBehind(closures, seed) ==
    IF Len(closures) = 0 THEN mulberry32(seed) ELSE closures[Len(closures)]

\* const rand = mulberry32(seed): a new closure, whatever closures there are
Generator(closures, seed) == mulberry32(seed)

\* part.applyMatrix4(new THREE.Matrix4().makeRotationZ((i * Math.PI) / 3))
RotatedZ(position, i) ==
    Array([k \in 1..Len(position) |->
              <<MulFP(position[k][1], Cos((i * Pi) \div 3))
                - MulFP(position[k][2], Sin((i * Pi) \div 3)),
                MulFP(position[k][1], Sin((i * Pi) \div 3))
                + MulFP(position[k][2], Cos((i * Pi) \div 3)),
                position[k][3]>>])

\* mergeGeometries(parts, true), parts the six rotated clones
SixParts(position) ==
    RotatedZ(position, 0) \o RotatedZ(position, 1) \o RotatedZ(position, 2)
    \o RotatedZ(position, 3) \o RotatedZ(position, 4) \o RotatedZ(position, 5)

\* v * (num / den): the factor of a scaling is kept as the quotient it is,
\* and the division is made last
Scaled(v, num, den) ==
    IF v >= 0 THEN (v * num) \div den ELSE -(((-v) * num) \div den)

\* box.getSize(size)
Size(box) ==
    <<box.max[1] - box.min[1], box.max[2] - box.min[2], box.max[3] - box.min[3]>>

\* baseDiameterXY (1e-6, the least, is 1 on thousandths)
BaseDiameterXY(position) ==
    Max(Max(Size(BoundingBox(position))[1], Size(BoundingBox(position))[2]), 1)

\* merged.scale(scaleXY, scaleXY, scaleXY), scaleXY = num / den
ScaledXYZ(position, num, den) ==
    Array([k \in 1..Len(position) |->
              <<Scaled(position[k][1], num, den), Scaled(position[k][2], num, den),
                Scaled(position[k][3], num, den)>>])

\* merged.scale(1, 1, scaleZ), scaleZ = num / den
ScaledZ(position, num, den) ==
    Array([k \in 1..Len(position) |->
              <<position[k][1], position[k][2], Scaled(position[k][3], num, den)>>])

\* the loop that keeps every vertex at least minHalfDepthMm = 1 from z = 0
MinHalfDepth(position) ==
    Array([k \in 1..Len(position) |->
              <<position[k][1], position[k][2],
                (IF position[k][3] >= 0 THEN 1 ELSE -1) * Max(Abs(position[k][3]), FP)>>])

\* makeSnowflakeMeshGeometry: the value returned, with what it was made from
Mesh3D(geometry2d, coreMaskParams, coreMargin, wedge, safeThickness,
       wedgeGeometry, targetDiameterMm, baseDiameterXY, position) ==
    [segments |-> geometry2d.segments, t |-> geometry2d.t,
     safeThickness |-> safeThickness,
     coreMaskParams |-> coreMaskParams, coreMargin |-> coreMargin,
     wedge |-> wedge,
     wedgeGeometry |-> wedgeGeometry,
     targetDiameterMm |-> targetDiameterMm,
     targetDepthMm |-> targetDiameterMm \div 20,
     baseDiameterXY |-> baseDiameterXY,
     position |-> position,
     size |-> Size(BoundingBox(position)),
     triangles |-> 6 * wedgeGeometry.triangles]

\* makeSnowflakeMeshGeometry from the first merged.scale on
Deepened(geometry2d, coreMaskParams, coreMargin, wedge, safeThickness,
         wedgeGeometry, targetDiameterMm, baseDiameterXY, scaled) ==
    Mesh3D(geometry2d, coreMaskParams, coreMargin, wedge, safeThickness,
           wedgeGeometry, targetDiameterMm, baseDiameterXY,
           MinHalfDepth(ScaledZ(scaled, targetDiameterMm \div 20,
                                Max(Size(BoundingBox(scaled))[3], 1))))

\* makeSnowflakeMeshGeometry from merged on
Normalized(geometry2d, coreMaskParams, coreMargin, wedge, safeThickness,
           wedgeGeometry, targetDiameterMm, merged) ==
    Deepened(geometry2d, coreMaskParams, coreMargin, wedge, safeThickness,
             wedgeGeometry, targetDiameterMm, BaseDiameterXY(merged),
             ScaledXYZ(merged, targetDiameterMm, BaseDiameterXY(merged)))

\* makeSnowflakeMeshGeometry from wedgeGeometry on
Cloned(geometry2d, coreMaskParams, coreMargin, wedge, safeThickness,
       wedgeGeometry, sizeInches) ==
    Normalized(geometry2d, coreMaskParams, coreMargin, wedge, safeThickness,
               wedgeGeometry, TargetDiameterMm(sizeInches),
               SixParts(wedgeGeometry.position))

\* makeSnowflakeMeshGeometry from branchWedgeSegments on
Merged(geometry2d, coreMaskParams, coreMargin, wedge, safeThickness, sizeInches) ==
    Cloned(geometry2d, coreMaskParams, coreMargin, wedge, safeThickness,
           buildSnowflakeMeshFromSegments(wedge, safeThickness), sizeInches)

\* makeSnowflakeMeshGeometry from geometry2d on
Selected(geometry2d, coreMaskParams, coreMargin, safeThickness, sizeInches) ==
    Merged(geometry2d, coreMaskParams, coreMargin,
           BranchWedgeSegments(Numeric(geometry2d.segments), coreMaskParams, coreMargin),
           safeThickness, sizeInches)

\* makeSnowflakeMeshGeometry with rand the closure in state t0
Generated(t0, seed, complexity, safeThickness, sizeInches) ==
    Selected(buildSnowflake2D(t0, complexity, safeThickness),
             buildCoreMaskParams(seed, safeThickness, complexity),
             CoreMargin(safeThickness, complexity),
             safeThickness, sizeInches)

\* function makeSnowflakeMeshGeometry(seed, complexity, thickness, sizeInches),
\* called when closures are the generator closures there are
makeSnowflakeMeshGeometry(closures, seed, complexity, thickness, sizeInches) ==
    Generated(Generator(closures, seed), seed, complexity,
              SafeThickness(thickness), sizeInches)

-----------------------------------------------------------------------------
(* sdfOutline.js on a store: which arrays a stage allocates and writes *)

\* An array or object of the store is [refs, nums]: the references it holds,
\* as addresses, and the numbers it holds.  A point [x, y] holds two
\* numbers, a list of points or a segment holds references, an analyzed
\* segment {a, b, depthScale} holds two references and a number, and the
\* position attribute of a geometry holds the triples of its vertices.
Obj(refs, nums) == [refs |-> refs, nums |-> nums]

PointAt(st, p) == <<st[p].nums[1], st[p].nums[2]>>

\* the points of the list at address a, and the segments of the list at a
PointsOf(st, a) == Array([k \in 1..Len(st[a].refs) |-> PointAt(st, st[a].refs[k])])

SegmentsOf(st, a) ==
    Array([k \in 1..Len(st[a].refs) |->
              <<PointAt(st, st[st[a].refs[k]].refs[1]),
                PointAt(st, st[st[a].refs[k]].refs[2])>>])

\* what a call leaves: the store and the address returned
Left(st, ret) == [store |-> st, ret |-> ret]

\* const next = []; next.push([x, y]) ...: new points in a new array, which
\* is the last object of the store
NewList(st, points) ==
    (st \o Array([k \in 1..Len(points) |-> Obj(<<>>, points[k])]))
    \o << Obj(Array([k \in 1..Len(points) |-> Len(st) + k]), <<>>) >>

\* array.slice(): a new array of the same references
Slice(st, a) == Left(Append(st, Obj(st[a].refs, <<>>)), Len(st) + 1)

\* fallbackPolygon on the store: points.push([...]) into const points = []
fallbackPolygonOn(st, segments) ==
    Left(NewList(st, fallbackPolygon(segments)),
         Len(st) + Len(fallbackPolygon(segments)) + 1)

\* chaikin on the store, from the iteration it on
RECURSIVE ChaikinFrom(_, _, _, _)
ChaikinFrom(st, loop, it, cut) ==
    IF it <= 0 THEN Left(st, loop)
    ELSE ChaikinFrom(NewList(st, chaikinStep(PointsOf(st, loop), cut)),
                     Len(st) + (2 * Len(st[loop].refs)) + 1, it - 1, cut)

chaikinOn(st, points, iterations, cut) ==
    ChaikinFrom(Slice(st, points).store, Slice(st, points).ret, iterations, cut)

\* loop.splice(i, 1) on the array at address loop
Splice(st, loop, i) ==
    [st EXCEPT ![loop].refs = SubSeq(@, 1, i - 1) \o SubSeq(@, i + 1, Len(@))]

\* the array given, in place of a copy of it
Copied_none(st, points) == Left(st, points)

\* simplifyLoop: const loop = points.slice(), the array that is spliced
Copied(st, points) == Slice(st, points)

\* simplifyLoop on the store: up to n turns of the while loop on the array
\* at address loop
RECURSIVE SimplifyFrom(_, _, _, _, _)
SimplifyFrom(st, loop, n, minEdge, collinearEps) ==
    LET R == {i \in 1..Len(st[loop].refs) :
                 Removable(PointsOf(st, loop), i, minEdge, collinearEps)}
    IN  IF n <= 0 \/ Len(st[loop].refs) <= 6 \/ R = {} THEN st
        ELSE SimplifyFrom(Splice(st, loop, SetMin(R)), loop, n - 1,
                          minEdge, collinearEps)

simplifyLoopOn(st, points, minEdge, collinearEps) ==
    IF Len(st[points].refs) < 6 THEN Slice(st, points)
    ELSE Left(SimplifyFrom(Copied(st, points).store, Copied(st, points).ret,
                           Len(st[points].refs), minEdge, collinearEps),
              Copied(st, points).ret)

\* analyzeSegments on the store: analyzed.push({ a, b, depthScale }) with
\* the a and b of const [a, b] = segments[i]
analyzeSegmentsOn(st, segments) ==
    Left((st \o Array([k \in 1..Len(st[segments].refs) |->
                          Obj(st[st[segments].refs[k]].refs,
                              <<analyzeSegments(SegmentsOf(st, segments))[k].depthScale>>)]))
         \o << Obj(Array([k \in 1..Len(st[segments].refs) |-> Len(st) + k]), <<>>) >>,
         Len(st) + Len(st[segments].refs) + 1)

\* applySurfaceRelief on the store: pos.setZ(i, ...) on the position
\* attribute of geometry; nothing is returned
applySurfaceReliefOn(st, geometry, segments, depth) ==
    IF Len(st[segments].refs) = 0 THEN Left(st, 0)
    ELSE Left([analyzeSegmentsOn(st, segments).store EXCEPT
                  ![geometry].nums =
                      ReliefOver(@, analyzeSegments(SegmentsOf(st, segments)), depth)],
              0)

\* segmentsToPolygon on the store, once loop is what simplifyLoop returned:
\* loop.reverse() and loop.push([first[0], first[1]]) write that array
FinishedOn(st, loop, segments, cellSize) ==
    IF Len(st[loop].refs) < 8 THEN fallbackPolygonOn(st, segments)
    ELSE LET wound == IF polygonArea(PointsOf(st, loop)) < 0
                      THEN [st EXCEPT ![loop].refs = Array(Reverse(@))]
                      ELSE st
             first == PointAt(wound, wound[loop].refs[1])
             last == PointAt(wound, wound[loop].refs[Len(wound[loop].refs)])
         IN  IF Hypot(first[1] - last[1], first[2] - last[2]) > MulFP(cellSize, 250)
             THEN Left([Append(wound, Obj(<<>>, first)) EXCEPT
                           ![loop].refs = Append(@, Len(wound) + 1)],
                       loop)
             ELSE Left(wound, loop)

\* segmentsToPolygon on the store, from the main loop on
RefinedOn(st, mainLoop, segments, g, smoothingIterations) ==
    FinishedOn(simplifyLoopOn(chaikinOn(st, mainLoop, smoothingIterations, 120).store,
                              chaikinOn(st, mainLoop, smoothingIterations, 120).ret,
                              MulFP(g.cellSize, 220), 12).store,
               simplifyLoopOn(chaikinOn(st, mainLoop, smoothingIterations, 120).store,
                              chaikinOn(st, mainLoop, smoothingIterations, 120).ret,
                              MulFP(g.cellSize, 220), 12).ret,
               segments, g.cellSize)

\* segmentsToPolygon on the store: the loops are arrays of the points of the
\* contour's nodes, new in this call
segmentsToPolygonOn(st, segments, options) ==
    IF Len(st[segments].refs) = 0 THEN fallbackPolygonOn(st, <<>>)
    ELSE IF Opt(options, "targetDiameterMm", 110 * FP) = 0
            \/ Len(ContoursOf(SegmentsOf(st, segments), options)) < 3
            \/ Len(buildLoopsFromSegments(
                       ContoursOf(SegmentsOf(st, segments), options))) = 0
    THEN fallbackPolygonOn(st, SegmentsOf(st, segments))
    ELSE RefinedOn(NewList(st, MainLoop(buildLoopsFromSegments(
                                   ContoursOf(SegmentsOf(st, segments), options)))),
                   Len(st) + Len(MainLoop(buildLoopsFromSegments(
                                     ContoursOf(SegmentsOf(st, segments), options)))) + 1,
                   SegmentsOf(st, segments),
                   GridOf(SegmentsOf(st, segments), options),
                   clamp(Opt(options, "smoothingIterations", 2), 1, 3))

-----------------------------------------------------------------------------
(* The other components at rest *)

IdleSeed == text = <<>> /\ seedOut = None
IdleRng == genSeed = None /\ gens = <<>> /\ outs = <<>>
IdleBuild == bArgs = None /\ bRet = None /\ bPc = "idle"
IdlePoly == pArgs = None /\ pRet = None /\ pPc = "idle"
IdleMesh == mArgs = None /\ mRet = NoMesh /\ mPc = "idle" /\ heap = <<>> /\ log = <<>>
IdleLoop == frame = None /\ fPc = "idle"
IdleStage == store = <<>> /\ sArgs = None /\ sRet = 0 /\ sPc = "idle"
IdleCell == block = None /\ cells = <<>> /\ cSegs = <<>> /\ cPc = "idle"
IdleApp ==
    /\ nameOrPhrase = <<>> /\ complexityLevel = 0 /\ thicknessLevel = 0
    /\ sizeLevel = 0 /\ generated = None /\ download = <<>>

-----------------------------------------------------------------------------
(* SpecSeed: seedFromString applied to bounded strings *)

MaxStrLen == 3
Chars == {0, 65, 255, 8364, 65535}

RECURSIVE StringsUpTo(_)
StringsUpTo(n) ==
    IF n = 0 THEN {<<>>}
    ELSE LET S == StringsUpTo(n - 1)
         IN  S \cup {Append(s, c) : s \in {u \in S : Len(u) = n - 1}, c \in Chars}

InitSeed ==
    /\ text \in StringsUpTo(MaxStrLen)
    /\ seedOut = None
    /\ IdleRng
    /\ IdleBuild
    /\ IdlePoly
    /\ IdleMesh
    /\ IdleLoop
    /\ IdleStage
    /\ IdleCell
    /\ IdleApp

Hash ==
    /\ seedOut = None
    /\ seedOut' = seedFromString(text)
    /\ UNCHANGED <<text, rngVars, buildVars, polyVars, meshVars, loopVars, stageVars, cellVars, appVars>>

NextSeed == Hash

SpecSeed == InitSeed /\ [][NextSeed]_vars

-----------------------------------------------------------------------------
(* SpecRng: two generators created from one seed, called in any order *)

MaxCalls == 5
GenIds == {"g1", "g2"}
Seeds == {<<0, 0>>, <<0, 1>>, <<-1, 65535>>, <<65535, 65535>>, <<37635, 11078>>}

InitRng ==
    /\ genSeed \in Seeds
    /\ gens = [g \in GenIds |-> mulberry32(genSeed)]
    /\ outs = [g \in GenIds |-> <<>>]
    /\ IdleSeed
    /\ IdleBuild
    /\ IdlePoly
    /\ IdleMesh
    /\ IdleLoop
    /\ IdleStage
    /\ IdleCell
    /\ IdleApp

Call(g) ==
    /\ Len(outs[g]) < MaxCalls
    /\ LET r == rand(gens[g])
       IN  /\ gens' = storeState(gens, g, r.t)
           /\ outs' = [outs EXCEPT ![g] = Append(@, r.value)]
    /\ UNCHANGED <<genSeed, seedVars, buildVars, polyVars, meshVars, loopVars, stageVars, cellVars, appVars>>

NextRng == \E g \in GenIds : Call(g)

SpecRng == InitRng /\ [][NextRng]_vars

-----------------------------------------------------------------------------
(* SpecBuild: buildSnowflake2D applied to a generator fresh from a seed *)

BuildSeeds == {<<0, 7>>, <<37635, 11078>>, <<0, 367>>}
Complexities == {-2000, 0, 400, 1000, 3000, 6000, 9000, 10000, 10600, 999000}
Thicknesses == {-5000, 0, 1500, 2000, 10000, 20000, 25000}

InitBuild ==
    /\ bArgs \in [seed : BuildSeeds, complexity : Complexities, thickness : Thicknesses]
    /\ bRet = None
    /\ bPc = "ready"
    /\ IdleSeed
    /\ IdleRng
    /\ IdlePoly
    /\ IdleMesh
    /\ IdleLoop
    /\ IdleStage
    /\ IdleCell
    /\ IdleApp

Build ==
    /\ bPc = "ready"
    /\ bPc' = "done"
    /\ bRet' = buildSnowflake2D(mulberry32(bArgs.seed), bArgs.complexity, bArgs.thickness)
    /\ UNCHANGED <<bArgs, seedVars, rngVars, polyVars, meshVars, loopVars, stageVars, cellVars, appVars>>

NextBuild == Build

SpecBuild == InitBuild /\ [][NextBuild]_vars

-----------------------------------------------------------------------------
(* SpecPoly: segmentsToPolygon applied to a segment list and an option set *)

\* what is passed for segments: a value that is no array (null, undefined,
\* an object), the empty array, and arrays of segments
SegmentInputs ==
    { [isArray |-> FALSE, items |-> <<>>],
      [isArray |-> TRUE, items |-> <<>>],
      [isArray |-> TRUE, items |-> << <<<<0, 0>>, <<2000, 0>>>> >>],
      [isArray |-> TRUE, items |-> << <<<<0, 0>>, <<2000, 0>>>>,
                                      <<<<1000, 1000>>, <<1000, 1000>>>> >>],
      [isArray |-> TRUE, items |-> << <<<<0, 0>>, <<2000, 0>>>>,
                                      <<<<0, 0>>, <<1000, 1700>>>> >>],
      [isArray |-> TRUE, items |-> << <<<<0, 0>>, <<300, 0>>>>,
                                      <<<<5000, 5000>>, <<5300, 5000>>>> >>],
      [isArray |-> TRUE, items |-> << <<<<0, 0>>, <<4000, 0>>>>,
                                      <<<<2000, 0>>, <<3000, 1500>>>>,
                                      <<<<2000, 0>>, <<3000, -1500>>>> >>],
      [isArray |-> TRUE, items |-> << <<<<0, 0>>, <<1000, 0>>>>,
                                      <<<<3000, 0>>, <<3000, 2000>>>> >>] }

\* what is passed for options: radiusMm and targetDiameterMm in thousandths
OptionInputs ==
    { [k \in {} |-> 0],
      [radiusMm |-> 12000, targetDiameterMm |-> 20000],
      [radiusMm |-> 12000, targetDiameterMm |-> 20000, gridResolution |-> 240,
       smoothingIterations |-> 3],
      [radiusMm |-> 100, targetDiameterMm |-> 1000000000, gridResolution |-> 100],
      [targetDiameterMm |-> 0],
      [radiusMm |-> 12000, targetDiameterMm |-> 40000, smoothingIterations |-> 1],
      [radiusMm |-> 5000, targetDiameterMm |-> 30000, smoothingIterations |-> 0],
      [radiusMm |-> 12000],
      [radiusMm |-> 12000, gridResolution |-> 240],
      [radiusMm |-> 99000, targetDiameterMm |-> 60000, smoothingIterations |-> 9],
      [targetDiameterMm |-> -110000],
      [radiusMm |-> 12000, targetDiameterMm |-> 50000],
      [radiusMm |-> 12000, targetDiameterMm |-> 70000],
      [radiusMm |-> 12000, targetDiameterMm |-> 90000, gridResolution |-> 240] }

InitPoly ==
    /\ pArgs \in [segments : SegmentInputs, options : OptionInputs]
    /\ pRet = None
    /\ pPc = "ready"
    /\ IdleSeed
    /\ IdleRng
    /\ IdleBuild
    /\ IdleMesh
    /\ IdleLoop
    /\ IdleStage
    /\ IdleCell
    /\ IdleApp

Outline ==
    /\ pPc = "ready"
    /\ pPc' = "done"
    /\ pRet' = segmentsToPolygon(pArgs.segments, pArgs.options)
    /\ UNCHANGED <<pArgs, seedVars, rngVars, buildVars, meshVars, loopVars, stageVars, cellVars, appVars>>

NextPoly == Outline

SpecPoly == InitPoly /\ [][NextPoly]_vars

-----------------------------------------------------------------------------
(* SpecMesh: one call of makeSnowflakeMeshGeometry or of                    *)
(* buildSnowflakeMeshFromSegments                                           *)

MeshComplexities == {0, 1000, 3000, 6000, 9000, 10000, 999000}
MeshThicknesses == {-5000, 0, 2000, 4000, 10000, 16000, 20000, 25000}
Sizes == {-2000, 0, 500, 1000, 2000, 3000, 4000, 5000}

\* segment lists passed to buildSnowflakeMeshFromSegments
WedgeInputs ==
    { <<>>,
      << <<<<1000, 0>>, <<5000, 0>>>> >>,
      << <<<<1000, 0>>, <<5000, 0>>>>, <<<<3000, 0>>, <<4000, 600>>>>,
         <<<<3000, 0>>, <<4000, -600>>>> >>,
      << <<<<0, 0>>, <<2000, 0>>>>, <<<<0, 0>>, <<300, 100>>>> >>,
      << <<<<0, 0>>, <<300, 100>>>>, <<<<0, 0>>, <<2000, 0>>>> >> }

\* every complexity and thickness at the default size, and every size at
\* some of them
MeshCalls ==
    [fn : {"makeSnowflakeMeshGeometry"}, seed : BuildSeeds,
     complexity : MeshComplexities, thickness : MeshThicknesses, sizeInches : {3000}]
    \cup
    [fn : {"makeSnowflakeMeshGeometry"}, seed : {<<0, 7>>},
     complexity : {3000, 9000, 999000}, thickness : {4000, 16000}, sizeInches : Sizes]

ExtrudeCalls ==
    [fn : {"buildSnowflakeMeshFromSegments"}, segments : WedgeInputs,
     thickness : MeshThicknesses]

InitMesh ==
    /\ mArgs \in MeshCalls \cup ExtrudeCalls
    /\ mRet = NoMesh
    /\ mPc = "ready"
    /\ heap = <<>>
    /\ log = <<>>
    /\ IdleSeed
    /\ IdleRng
    /\ IdleBuild
    /\ IdlePoly
    /\ IdleLoop
    /\ IdleStage
    /\ IdleCell
    /\ IdleApp

\* a call of makeSnowflakeMeshGeometry, from entry to return
Mesh ==
    /\ mPc = "ready"
    /\ mArgs.fn = "makeSnowflakeMeshGeometry"
    /\ mPc' = "done"
    /\ mRet' = makeSnowflakeMeshGeometry(heap, mArgs.seed, mArgs.complexity,
                                         mArgs.thickness, mArgs.sizeInches)
    /\ heap' = << mRet'.t >>
    /\ log' = Append(log, [key |-> <<mArgs.seed, mArgs.complexity, mArgs.thickness>>,
                           segments |-> mRet'.segments])
    /\ UNCHANGED <<mArgs, seedVars, rngVars, buildVars, polyVars, loopVars, stageVars, cellVars, appVars>>

\* a call of buildSnowflakeMeshFromSegments, from entry to return
Extrude ==
    /\ mPc = "ready"
    /\ mArgs.fn = "buildSnowflakeMeshFromSegments"
    /\ mPc' = "done"
    /\ mRet' = buildSnowflakeMeshFromSegments(mArgs.segments, mArgs.thickness)
    /\ UNCHANGED <<mArgs, heap, log, seedVars, rngVars, buildVars, polyVars, loopVars, stageVars, cellVars, appVars>>

NextMesh == Mesh \/ Extrude

SpecMesh == InitMesh /\ [][NextMesh]_vars

-----------------------------------------------------------------------------
(* SpecPipe: makeSnowflakeMeshGeometry invoked again and again, as the      *)
(* component re-renders with other settings                                 *)

MaxRuns == 3

PipeCalls ==
    { [fn |-> "makeSnowflakeMeshGeometry", seed |-> <<0, 7>>,
       complexity |-> 3000, thickness |-> 4000, sizeInches |-> 3000],
      [fn |-> "makeSnowflakeMeshGeometry", seed |-> <<0, 7>>,
       complexity |-> 3000, thickness |-> 16000, sizeInches |-> 3000],
      [fn |-> "makeSnowflakeMeshGeometry", seed |-> <<0, 7>>,
       complexity |-> 6000, thickness |-> 4000, sizeInches |-> 2000],
      [fn |-> "makeSnowflakeMeshGeometry", seed |-> <<37635, 11078>>,
       complexity |-> 3000, thickness |-> 4000, sizeInches |-> 3000] }

InitPipe ==
    /\ IdleMesh
    /\ IdleLoop
    /\ IdleStage
    /\ IdleCell
    /\ IdleApp
    /\ IdleSeed
    /\ IdleRng
    /\ IdleBuild
    /\ IdlePoly

\* the memoised call is due again, with the arguments args
Invoke(args) ==
    /\ mPc \in {"idle", "done"}
    /\ Len(log) < MaxRuns
    /\ mArgs' = args
    /\ mPc' = "ready"
    /\ UNCHANGED <<mRet, heap, log, seedVars, rngVars, buildVars, polyVars, loopVars, stageVars, cellVars, appVars>>

NextPipe == (\E args \in PipeCalls : Invoke(args)) \/ Mesh

SpecPipe == InitPipe /\ [][NextPipe]_vars

-----------------------------------------------------------------------------
(* SpecLoop: the while loops of the pipeline, one turn at a time *)

\* the angles the while loops of angleInWedge and shortestAngleDiff start from
LoopAngles ==
    {-16000, -12000, -9500, -7000, -3143, -3142, -1000, 0, 2000, 3142, 3143,
     7000, 9500, 12000, 16000}

\* the skeletons whose outline is traced
LoopSegments ==
    { << <<<<0, 0>>, <<2000, 0>>>> >>,
      << <<<<0, 0>>, <<2000, 0>>>>, <<<<0, 0>>, <<1000, 1700>>>> >>,
      << <<<<0, 0>>, <<300, 0>>>>, <<<<5000, 5000>>, <<5300, 5000>>>> >>,
      << <<<<0, 0>>, <<4000, 0>>>>, <<<<2000, 0>>, <<3000, 1500>>>>,
         <<<<2000, 0>>, <<3000, -1500>>>> >> }

LoopOptions ==
    { [k \in {} |-> 0],
      [radiusMm |-> 12000, targetDiameterMm |-> 50000] }

\* contour segments that do not close: a chain, and a chain that forks
ChainOf(ends) ==
    Array([k \in 1..Len(ends) |->
              [a |-> [key |-> Key("h", ends[k][1], 0), point |-> <<ends[k][1] * FP, 0>>],
               b |-> [key |-> Key("h", ends[k][2], 0), point |-> <<ends[k][2] * FP, 0>>]]])

OpenContours ==
    { ChainOf(<< <<1, 2>>, <<2, 3>>, <<3, 4>> >>),
      ChainOf(<< <<1, 2>>, <<2, 3>>, <<2, 4>>, <<4, 1>> >>),
      ChainOf(<< <<1, 1>>, <<1, 2>>, <<2, 1>> >>),
      ChainOf(<< <<1, 2>>, <<2, 3>>, <<3, 1>>, <<2, 4>> >>),
      ChainOf(<< <<4, 2>>, <<1, 2>>, <<2, 3>>, <<3, 1>> >>),
      ChainOf(<< <<1, 2>>, <<2, 3>>, <<3, 1>>, <<1, 4>>, <<4, 5>>, <<5, 1>> >>),
      ChainOf(<< <<1, 2>>, <<2, 3>>, <<3, 4>>, <<4, 1>>, <<1, 3>>, <<5, 6>> >>) }

\* the contour around one inside corner, the corner ix + 1, iy + 1 of a grid
\* whose coordinates are rounded, from the four cells that meet in it
Diamond(g, ix, iy) ==
    CornerSegments(g, ix, iy, FP, FP, -FP, FP)
    \o CornerSegments(g, ix + 1, iy, FP, FP, FP, -FP)
    \o CornerSegments(g, ix, iy + 1, FP, -FP, FP, FP)
    \o CornerSegments(g, ix + 1, iy + 1, -FP, FP, FP, FP)

RoundedGrid ==
    [minX |-> -(Exact + (Exact \div 4)), minY |-> -(Exact + (Exact \div 4)),
     cellSize |-> 1001]

\* the contour segment lists walked
LoopContours ==
    {ContoursOf(s, o) : s \in LoopSegments, o \in LoopOptions} \cup OpenContours
    \cup {Diamond(RoundedGrid, 1, 10), Diamond(RoundedGrid, 1, 10) \o Diamond(RoundedGrid, 8, 3)}

\* the while loops of angleInWedge and of shortestAngleDiff on theta
AngleFrame(theta) == [loop |-> "angle", theta |-> theta, t |-> theta]

\* loops handed to simplifyLoop: of three, five and six points, a square
\* with the middles of its sides, a heptagon with one short edge, an octagon
\* with nothing to remove, and a loop that passes one point twice
SimplifyInputs ==
    { << <<0, 0>>, <<2000, 0>>, <<0, 2000>> >>,
      << <<0, 0>>, <<100, 0>>, <<2000, 0>>, <<2000, 2000>>, <<0, 2000>> >>,
      << <<0, 0>>, <<100, 0>>, <<2000, 0>>, <<2000, 2000>>, <<1000, 2000>>,
         <<0, 2000>> >>,
      << <<0, 0>>, <<1000, 0>>, <<2000, 0>>, <<2000, 1000>>, <<2000, 2000>>,
         <<1000, 2000>>, <<0, 2000>>, <<0, 1000>> >>,
      << <<1000, 0>>, <<2000, 1000>>, <<2000, 2000>>, <<1000, 3000>>,
         <<0, 2000>>, <<0, 1000>>, <<100, 900>> >>,
      << <<1000, 0>>, <<2000, 0>>, <<3000, 1000>>, <<3000, 2000>>,
         <<2000, 3000>>, <<1000, 3000>>, <<0, 2000>>, <<0, 1000>> >>,
      << <<0, 0>>, <<1000, 0>>, <<2000, 0>>, <<2000, 1000>>, <<1000, 0>>,
         <<1000, 1000>>, <<2000, 2000>>, <<1000, 3000>>, <<0, 2000>> >> }

\* the while loop of simplifyLoop on points
SimplifyFrame(points, minEdge) ==
    [loop |-> "simplify", points |-> points, minEdge |-> minEdge,
     st |-> [loop |-> points, changed |-> TRUE]]

\* the loops of buildLoopsFromSegments on cs
WalkFrame(cs) ==
    [loop |-> "walk", cs |-> cs, used |-> {}, loops |-> <<>>, i |-> 1,
     w |-> [stop |-> TRUE]]

\* the skeletons and options whose contour closes at least one loop
Traced ==
    {p \in LoopSegments \X LoopOptions :
        Len(buildLoopsFromSegments(ContoursOf(p[1], p[2]))) > 0}

\* a square loop of side s with a corner at x, 0, wound either way
Square(x, s, ccw) ==
    IF ccw THEN << <<x, 0>>, <<x + s, 0>>, <<x + s, s>>, <<x, s>> >>
    ELSE << <<x, 0>>, <<x, s>>, <<x + s, s>>, <<x + s, 0>> >>

\* the lists of loops the main loop is chosen from
LoopLists ==
    { << Square(0, 2000, TRUE) >>,
      << Square(0, 1000, TRUE), Square(3000, 2000, FALSE), Square(6000, 2000, TRUE) >>,
      << Square(0, 2000, FALSE), Square(3000, 1000, TRUE), Square(6000, 2000, TRUE),
         Square(9000, 3000, FALSE) >>,
      << Square(0, 3000, TRUE), Square(4000, 3000, FALSE), Square(8000, 1000, TRUE) >>,
      << Square(0, 1000, TRUE), Square(2000, 2000, TRUE), Square(5000, 3000, TRUE) >> }
    \cup {buildLoopsFromSegments(ChainOf(<< <<1, 2>>, <<2, 3>>, <<3, 1>>,
                                            <<1, 4>>, <<4, 5>>, <<5, 1>> >>))}
    \cup {buildLoopsFromSegments(ContoursOf(p[1], p[2])) : p \in Traced}

\* let mainLoop = loops[0]; let bestArea = Math.abs(polygonArea(mainLoop));
\* mainLoop is held as the index of the loop it refers to
ChooseFrame(loops) ==
    [loop |-> "choose", loops |-> loops,
     c |-> [i |-> 2, mainLoop |-> 1, bestArea |-> Abs(polygonArea(loops[1]))]]

\* the body of the for loop with the later of two equal areas winning
chooseTurn_lastWins(loops, c) ==
    LET area == Abs(polygonArea(loops[c.i]))
    IN  IF area >= c.bestArea
        THEN [i |-> c.i + 1, mainLoop |-> c.i, bestArea |-> area]
        ELSE [c EXCEPT !.i = @ + 1]

\* const area = Math.abs(polygonArea(loops[i]));
\* if (area > bestArea) { bestArea = area; mainLoop = loops[i]; }
chooseTurn(loops, c) ==
    LET area == Abs(polygonArea(loops[c.i]))
    IN  IF area > c.bestArea
        THEN [i |-> c.i + 1, mainLoop |-> c.i, bestArea |-> area]
        ELSE [c EXCEPT !.i = @ + 1]

LoopFrames ==
    {AngleFrame(theta) : theta \in LoopAngles}
    \cup {WalkFrame(cs) : cs \in LoopContours}
    \cup {ChooseFrame(loops) : loops \in LoopLists}
    \cup {SimplifyFrame(chaikin(MainLoop(buildLoopsFromSegments(ContoursOf(p[1], p[2]))),
                                clamp(Opt(p[2], "smoothingIterations", 2), 1, 3), 120),
                        MulFP(GridOf(p[1], p[2]).cellSize, 220)) : p \in Traced}
    \cup {SimplifyFrame(fallbackPolygon(<<>>), 700)}
    \cup {SimplifyFrame(points, 700) : points \in SimplifyInputs}

\* where a loop is entered
Entry(f) ==
    CASE f.loop = "angle" -> "while1"
      [] f.loop = "simplify" -> "if"
      [] f.loop = "walk" -> "for"
      [] f.loop = "choose" -> "each"

\* the positions in the loops
Positions ==
    {"while1", "sub", "while2", "add", "if", "while", "pass",
     "for", "body", "walk", "turn", "keep", "next", "each", "weigh", "done"}

InitLoop ==
    /\ frame \in LoopFrames
    /\ fPc = Entry(frame)
    /\ IdleSeed
    /\ IdleRng
    /\ IdleBuild
    /\ IdlePoly
    /\ IdleMesh
    /\ IdleStage
    /\ IdleCell
    /\ IdleApp

\* while (t > Math.PI) t -= Math.PI * 2; while (t < -Math.PI) t += Math.PI * 2;
Wrap ==
    /\ fPc \notin {"idle", "done"}
    /\ frame.loop = "angle"
    /\ CASE fPc = "while1" ->
              /\ fPc' = IF frame.t > Pi THEN "sub" ELSE "while2"
              /\ frame' = frame
         [] fPc = "sub" ->
              /\ fPc' = "while1"
              /\ frame' = [frame EXCEPT !.t = @ - (2 * Pi)]
         [] fPc = "while2" ->
              /\ fPc' = IF frame.t < -Pi THEN "add" ELSE "done"
              /\ frame' = frame
         [] fPc = "add" ->
              /\ fPc' = "while2"
              /\ frame' = [frame EXCEPT !.t = @ + (2 * Pi)]
         [] OTHER -> FALSE
    /\ UNCHANGED <<seedVars, rngVars, buildVars, polyVars, meshVars, stageVars, cellVars, appVars>>

\* if (points.length < 6) return points.slice();
\* while (changed && loop.length > 6) { changed = false; for ... }
Simplify ==
    /\ fPc \notin {"idle", "done"}
    /\ frame.loop = "simplify"
    /\ CASE fPc = "if" ->
              /\ fPc' = IF Len(frame.points) < 6 THEN "done" ELSE "while"
              /\ frame' = frame
         [] fPc = "while" ->
              /\ fPc' = IF frame.st.changed /\ Len(frame.st.loop) > 6
                        THEN "pass" ELSE "done"
              /\ frame' = frame
         [] fPc = "pass" ->
              /\ fPc' = "while"
              /\ frame' = [frame EXCEPT !.st = simplifyPass(@, frame.minEdge, 12)]
         [] OTHER -> FALSE
    /\ UNCHANGED <<seedVars, rngVars, buildVars, polyVars, meshVars, stageVars, cellVars, appVars>>

\* the for loop over the contour segments, and the while loop in its body
Walk ==
    /\ fPc \notin {"idle", "done"}
    /\ frame.loop = "walk"
    /\ CASE fPc = "for" ->
              /\ fPc' = IF frame.i > Len(frame.cs) THEN "done" ELSE "body"
              /\ frame' = frame
         [] fPc = "body" ->
              IF frame.i \in frame.used
              THEN fPc' = "next" /\ frame' = frame
              ELSE /\ fPc' = "walk"
                   /\ frame' = [frame EXCEPT
                                   !.w = walkStart(frame.cs, frame.used, frame.i)]
         [] fPc = "walk" ->
              /\ fPc' = IF frame.w.safety > 0 THEN "turn" ELSE "keep"
              /\ frame' = frame
         [] fPc = "turn" ->
              /\ fPc' = IF walkTurn(frame.cs, frame.w).stop THEN "keep" ELSE "walk"
              /\ frame' = [frame EXCEPT !.w = walkTurn(frame.cs, @)]
         [] fPc = "keep" ->
              /\ fPc' = "next"
              /\ frame' = [frame EXCEPT
                              !.used = frame.w.used,
                              !.loops = kept(frame.cs, [used |-> frame.used,
                                                        loops |-> frame.loops],
                                             frame.w).loops]
         [] fPc = "next" ->
              /\ fPc' = "for"
              /\ frame' = [frame EXCEPT !.i = @ + 1]
         [] OTHER -> FALSE
    /\ UNCHANGED <<seedVars, rngVars, buildVars, polyVars, meshVars, stageVars, cellVars, appVars>>

\* for (let i = 1; i < loops.length; i += 1) { ... } over the loops returned
Choose ==
    /\ fPc \notin {"idle", "done"}
    /\ frame.loop = "choose"
    /\ CASE fPc = "each" ->
              /\ fPc' = IF frame.c.i <= Len(frame.loops) THEN "weigh" ELSE "done"
              /\ frame' = frame
         [] fPc = "weigh" ->
              /\ fPc' = "each"
              /\ frame' = [frame EXCEPT !.c = chooseTurn(frame.loops, @)]
         [] OTHER -> FALSE
    /\ UNCHANGED <<seedVars, rngVars, buildVars, polyVars, meshVars, stageVars, cellVars, appVars>>

NextLoop == Wrap \/ Simplify \/ Walk \/ Choose

\* a step of a loop that has not been left: it moves the position
Step == fPc \notin {"idle", "done"} /\ fPc' \in Positions

\* a loop that has not been left takes its next step: the code is synchronous
SpecLoop == InitLoop /\ [][NextLoop]_vars /\ WF_fPc(Step)

-----------------------------------------------------------------------------
(* SpecMeshRun: a call of the mesh front end, or one of its while loops *)

\* the call returns
Returns == mPc = "ready" /\ mPc' = "done"

\* a call that has been entered returns once its loops are left, and a loop
\* that has not been left takes its next step
SpecMeshRun ==
    /\ InitMesh \/ InitLoop
    /\ [][NextMesh \/ NextLoop]_vars
    /\ WF_mPc(Returns)
    /\ WF_fPc(Step)

-----------------------------------------------------------------------------
(* SpecStage: one call of a stage function of sdfOutline.js on a store *)

\* the segment lists, the loops and the geometry the store holds at first
StageSegments ==
    << <<>>,
       << <<<<0, 0>>, <<2000, 0>>>> >>,
       << <<<<0, 0>>, <<2000, 0>>>>, <<<<0, 0>>, <<300, 100>>>> >>,
       << <<<<0, 0>>, <<4000, 0>>>>, <<<<2000, 0>>, <<3000, 1500>>>>,
          <<<<2000, 0>>, <<3000, -1500>>>> >>,
       << <<<<0, 0>>, <<300, 0>>>>, <<<<5000, 5000>>, <<5300, 5000>>>> >> >>

StageLoops ==
    << << <<0, 0>>, <<1000, 0>>, <<1000, 1000>>, <<0, 1000>> >>,
       << <<0, 0>>, <<0, 1000>>, <<1000, 1000>>, <<1000, 0>> >>,
       << <<0, 0>>, <<500, 0>>, <<1000, 0>>, <<1000, 500>>, <<1000, 1000>>,
          <<500, 1000>>, <<0, 1000>>, <<0, 500>> >>,
       << <<0, 0>>, <<1000, 0>>, <<2000, 0>>, <<2000, 100>>, <<2000, 1000>>,
          <<1000, 1000>>, <<100, 1000>>, <<0, 1000>>, <<0, 100>> >>,
       fallbackPolygon(<<>>) >>

StageGeometry == ExtrudeGeometry(Contour(fallbackPolygon(StageSegments[3])), 2400)

\* vertices at several heights, on both sides of topThreshold
LayeredGeometry ==
    << <<0, 0, 1200>>, <<0, 0, -1200>>, <<1000, 0, 300>>, <<1000, 0, -300>>,
       <<3000, 2000, 700>>, <<3000, 2000, -700>>, <<500, 5000, 0>> >>

StageOptions ==
    << [k \in {} |-> 0], [radiusMm |-> 12000, targetDiameterMm |-> 50000] >>

\* the points, the segments and the list of one segment list, in a store
WithSegments(st, segments) ==
    ((st \o Array([k \in 1..(2 * Len(segments)) |->
                      Obj(<<>>, segments[(k + 1) \div 2][2 - (k % 2)])]))
     \o Array([k \in 1..Len(segments) |->
                  Obj(<<Len(st) + (2 * k) - 1, Len(st) + (2 * k)>>, <<>>)]))
    \o << Obj(Array([k \in 1..Len(segments) |-> Len(st) + (2 * Len(segments)) + k]),
              <<>>) >>

\* a store and the addresses of what was put into it last
RECURSIVE Stocked(_, _, _)
Stocked(acc, lists, kind) ==
    IF Len(lists) = 0 THEN acc
    ELSE LET st == CASE kind = "segments" -> WithSegments(acc.store, Head(lists))
                     [] kind = "loop" -> NewList(acc.store, Head(lists))
                     [] kind = "geometry" -> Append(acc.store, Obj(<<>>, Head(lists)))
         IN  Stocked([acc EXCEPT !.store = st, ![kind] = @ \cup {Len(st)}],
                     Tail(lists), kind)

Stock ==
    Stocked(Stocked(Stocked([store |-> <<>>, segments |-> {}, loop |-> {},
                             geometry |-> {}],
                            StageSegments, "segments"),
                    StageLoops, "loop"),
            <<StageGeometry, LayeredGeometry>>, "geometry")

StageCalls ==
    [fn : {"fallbackPolygon", "analyzeSegments"}, a : Stock.segments, b : {0}, n : {0}]
    \cup [fn : {"segmentsToPolygon"}, a : Stock.segments, b : {0},
          n : 1..Len(StageOptions)]
    \cup [fn : {"applySurfaceRelief"}, a : Stock.geometry, b : Stock.segments,
          n : {1400, 2400}]
    \cup [fn : {"chaikin"}, a : Stock.loop, b : {0}, n : 0..3]
    \cup [fn : {"simplifyLoop"}, a : Stock.loop, b : {0}, n : {50, 300, 700}]

InitStage ==
    /\ store = Stock.store
    /\ sArgs \in StageCalls
    /\ sRet = 0
    /\ sPc = "ready"
    /\ IdleSeed
    /\ IdleRng
    /\ IdleBuild
    /\ IdlePoly
    /\ IdleMesh
    /\ IdleLoop
    /\ IdleCell
    /\ IdleApp

\* the call of fn, from entry to return, leaving left
Called(fn, left) ==
    /\ sPc = "ready"
    /\ sArgs.fn = fn
    /\ sPc' = "done"
    /\ store' = left.store
    /\ sRet' = left.ret
    /\ UNCHANGED <<sArgs, seedVars, rngVars, buildVars, polyVars, meshVars, loopVars,
                   cellVars, appVars>>

NextStage ==
    \/ Called("fallbackPolygon", fallbackPolygonOn(store, SegmentsOf(store, sArgs.a)))
    \/ Called("analyzeSegments", analyzeSegmentsOn(store, sArgs.a))
    \/ Called("segmentsToPolygon",
              segmentsToPolygonOn(store, sArgs.a, StageOptions[sArgs.n]))
    \/ Called("applySurfaceRelief",
              applySurfaceReliefOn(store, sArgs.a, sArgs.b, sArgs.n))
    \/ Called("chaikin", chaikinOn(store, sArgs.a, sArgs.n, 120))
    \/ Called("simplifyLoop", simplifyLoopOn(store, sArgs.a, sArgs.n, 12))

SpecStage == InitStage /\ [][NextStage]_vars

-----------------------------------------------------------------------------
(* SpecCell: the marching loop of segmentsToPolygon (sdfOutline.js 393-415)
   over a block of 2 x 2 cells, caseToEdgePairs and interpolateEdgeNode
   applied to every cell of it *)

\* where the block lies in the grid: ix, iy of its first cell
BlockAt == { <<0, 0>>, <<9, 1>>, <<1, 10>> }

\* minX, minY, cellSize: one grid whose coordinates are exact and one whose
\* coordinates are rounded
Geometries ==
    { [minX |-> -1500, minY |-> -1500, cellSize |-> 250], RoundedGrid }

\* the magnitudes of the field at the nine corners of the block, row by row
Magnitudes ==
    { <<1000, 3000, 1000, 3000, 1000, 3000, 1000, 3000, 1000>>,
      <<1000, 3000, 1000, 3000, 0, 3000, 1000, 3000, 1000>>,
      <<1000, 1000, 1000, 1000, 9000, 1000, 1000, 1000, 1000>> }

Blocks ==
    { [ix |-> at[1], iy |-> at[2], g |-> g, v |-> [k \in 1..9 |-> sign[k] * w[k]]] :
        at \in BlockAt, g \in Geometries, w \in Magnitudes,
        sign \in [1..9 -> {-1, 1}] }

InitCell ==
    /\ block \in Blocks
    /\ cells = <<>>
    /\ cSegs = <<>>
    /\ cPc = "for"
    /\ IdleSeed
    /\ IdleRng
    /\ IdleBuild
    /\ IdlePoly
    /\ IdleMesh
    /\ IdleLoop
    /\ IdleStage
    /\ IdleApp

\* field[idx(ix, iy)] for the corner dx, dy of the block
Corner(b, dx, dy) == b.v[(dy * 3) + dx + 1]

\* the locals of the iteration for the cell dx, dy of the block
Locals(b, dx, dy, v0, v1, v2, v3) ==
    [ix |-> b.ix + dx, iy |-> b.iy + dy, v |-> <<v0, v1, v2, v3>>,
     centerValue |-> (v0 + v1 + v2 + v3) \div 4,
     mask |-> Mask(v0, v1, v2, v3),
     pairs |-> caseToEdgePairs(Mask(v0, v1, v2, v3), (v0 + v1 + v2 + v3) \div 4)]

\* one iteration of the inner for loop, the cells of a row first (the loop
\* skips the call of caseToEdgePairs for masks 0 and 15, where it returns no
\* pair)
Iteration(dx, dy) ==
    /\ cells' = Append(cells,
            Locals(block, dx, dy, Corner(block, dx, dy), Corner(block, dx + 1, dy),
                   Corner(block, dx + 1, dy + 1), Corner(block, dx, dy + 1)))
    /\ cSegs' = cSegs \o
            CornerSegments(block.g, block.ix + dx, block.iy + dy,
                           Corner(block, dx, dy), Corner(block, dx + 1, dy),
                           Corner(block, dx + 1, dy + 1), Corner(block, dx, dy + 1))

Cell ==
    /\ cPc = "for"
    /\ Iteration(Len(cells) % 2, Len(cells) \div 2)
    /\ cPc' = IF Len(cells) = 3 THEN "done" ELSE "for"
    /\ UNCHANGED <<block, seedVars, rngVars, buildVars, polyVars, meshVars, loopVars,
                   stageVars, appVars>>

NextCell == Cell

SpecCell == InitCell /\ [][NextCell]_vars

-----------------------------------------------------------------------------
(* SpecApp: the App component (App.jsx 205-290, 575-630): the name field, the
   three sliders, the rebuild button and the export button *)

COMPLEXITY_VALUES == <<3, 6, 9>>
THICKNESS_VALUES == <<4, 10, 16>>
SIZE_VALUES_IN == <<1, 2, 3, 4, 5>>

\* "Ice to meet you"
InitialName == <<73, 99, 101, 32, 116, 111, 32, 109, 101, 101, 116, 32, 121, 111, 117>>

\* what is typed into the name field: " Ada-1"
TypedNames == {<<32, 65, 100, 97, 45, 49>>}

\* the positions the size slider is moved to
SizeLevels == {0, 2, 4}

\* array[index] of a JavaScript array
At(array, index) == array[index + 1]

\* String.prototype.trim
WhiteSpace == {9, 10, 11, 12, 13, 32, 160}

RECURSIVE TrimStart(_)
TrimStart(str) ==
    IF Len(str) > 0 /\ Head(str) \in WhiteSpace THEN TrimStart(Tail(str)) ELSE str

RECURSIVE TrimEnd(_)
TrimEnd(str) ==
    IF Len(str) > 0 /\ str[Len(str)] \in WhiteSpace
    THEN TrimEnd(SubSeq(str, 1, Len(str) - 1))
    ELSE str

Trim(str) == TrimEnd(TrimStart(str))

\* String.prototype.toLowerCase on the letters A-Z
ToLowerCase(str) ==
    [k \in 1..Len(str) |-> IF str[k] \in 65..90 THEN str[k] + 32 ELSE str[k]]

\* [a-z0-9]
AlphaNumeric == (97..122) \cup (48..57)

RECURSIVE Underscored(_, _)
\* replace(/[^a-z0-9]+/g, "_") from character k on
Underscored(str, k) ==
    IF k > Len(str) THEN <<>>
    ELSE IF str[k] \in AlphaNumeric THEN <<str[k]>> \o Underscored(str, k + 1)
    ELSE IF k > 1 /\ str[k - 1] \notin AlphaNumeric THEN Underscored(str, k + 1)
    ELSE <<95>> \o Underscored(str, k + 1)

RECURSIVE Stripped(_)
\* replace(/^_+|_+$/g, "")
Stripped(str) ==
    IF Len(str) > 0 /\ Head(str) = 95 THEN Stripped(Tail(str))
    ELSE IF Len(str) > 0 /\ str[Len(str)] = 95
    THEN Stripped(SubSeq(str, 1, Len(str) - 1))
    ELSE str

\* function sanitizeNamePart(value); "anon" for the empty result
sanitizeNamePart(value) ==
    IF Stripped(Underscored(ToLowerCase(Trim(value)), 1)) = <<>>
    THEN <<97, 110, 111, 110>>
    ELSE Stripped(Underscored(ToLowerCase(Trim(value)), 1))

RECURSIVE Decimal(_)
\* `${n}` for a natural number n
Decimal(n) == IF n < 10 THEN <<48 + n>> ELSE Decimal(n \div 10) \o <<48 + (n % 10)>>

\* const safeThickness = Math.max(2, Math.min(20, generated.thickness))
safeThickness(g) == Max(2, Min(20, g.thickness))

\* const seedText = `${name.trim()}|${complexity}|${safeThickness}`
seedText(g) ==
    Trim(g.nameOrPhrase) \o <<124>> \o Decimal(g.complexity) \o <<124>>
    \o Decimal(safeThickness(g))

\* const seed = useMemo(() => seedFromString(seedText), [seedText])
seedOf(g) == seedFromString(seedText(g))

\* the file name handleExport builds from the committed tuple
FileName(g) ==
    <<115, 110, 111, 119, 102, 108, 97, 107, 101, 95>> \o sanitizeNamePart(g.nameOrPhrase)
    \o <<95, 99>> \o Decimal(Max(1, Min(3, g.complexityLevel + 1)))
    \o <<95, 116>> \o Decimal(Max(1, Min(3, g.thicknessLevel + 1)))
    \o <<95>> \o Decimal(IF g.sizeInches = 0 THEN 3 ELSE g.sizeInches)
    \o <<105, 110, 46, 115, 116, 108>>

\* the tuple handleRegenerate commits
Tuple(name, cLevel, tLevel, sLevel) ==
    [nameOrPhrase |-> name,
     complexity |-> At(COMPLEXITY_VALUES, cLevel),
     thickness |-> At(THICKNESS_VALUES, tLevel),
     complexityLevel |-> cLevel,
     thicknessLevel |-> tLevel,
     sizeInches |-> At(SIZE_VALUES_IN, sLevel)]

\* the useState initial values
InitApp ==
    /\ nameOrPhrase = InitialName
    /\ complexityLevel = 1
    /\ thicknessLevel = 1
    /\ sizeLevel = 2
    /\ generated = [nameOrPhrase |-> InitialName,
                    complexity |-> At(COMPLEXITY_VALUES, 1),
                    thickness |-> At(THICKNESS_VALUES, 1),
                    complexityLevel |-> 1,
                    thicknessLevel |-> 1,
                    sizeInches |-> At(SIZE_VALUES_IN, 2)]
    /\ download = <<>>
    /\ IdleSeed
    /\ IdleRng
    /\ IdleBuild
    /\ IdlePoly
    /\ IdleMesh
    /\ IdleLoop
    /\ IdleStage
    /\ IdleCell

Others ==
    <<seedVars, rngVars, buildVars, polyVars, meshVars, loopVars, stageVars, cellVars>>

\* onChange={(e) => setNameOrPhrase(e.target.value)}
SetNameOrPhrase(value) ==
    /\ nameOrPhrase' = value
    /\ UNCHANGED <<complexityLevel, thicknessLevel, sizeLevel, generated, download, Others>>

\* onFocus={() => setNameOrPhrase("")}
FocusName ==
    /\ nameOrPhrase' = <<>>
    /\ UNCHANGED <<complexityLevel, thicknessLevel, sizeLevel, generated, download, Others>>

\* the complexity slider committing as it is moved
SetComplexityLevel_live(level) ==
    /\ complexityLevel' = level
    /\ generated' = [generated EXCEPT !.complexityLevel = level,
                                      !.complexity = At(COMPLEXITY_VALUES, level)]
    /\ UNCHANGED <<nameOrPhrase, thicknessLevel, sizeLevel, download, Others>>

\* onChange={(e) => setComplexityLevel(Number(e.target.value))}
SetComplexityLevel(level) ==
    /\ complexityLevel' = level
    /\ UNCHANGED <<nameOrPhrase, thicknessLevel, sizeLevel, generated, download, Others>>

\* onChange={(e) => setThicknessLevel(Number(e.target.value))}
SetThicknessLevel(level) ==
    /\ thicknessLevel' = level
    /\ UNCHANGED <<nameOrPhrase, complexityLevel, sizeLevel, generated, download, Others>>

\* onChange={(e) => setSizeLevel(Number(e.target.value))}
SetSizeLevel(level) ==
    /\ sizeLevel' = level
    /\ UNCHANGED <<nameOrPhrase, complexityLevel, thicknessLevel, generated, download, Others>>

\* const handleRegenerate = () => { setGenerated({...}) }
handleRegenerate ==
    /\ generated' = Tuple(nameOrPhrase, complexityLevel, thicknessLevel, sizeLevel)
    /\ UNCHANGED <<nameOrPhrase, complexityLevel, thicknessLevel, sizeLevel, download, Others>>

\* const handleNameKeyDown = (e) => { if (e.key === "Enter") ... }
handleNameKeyDown(key) ==
    IF key = "Enter" THEN handleRegenerate ELSE UNCHANGED vars

\* const handleExport = () => { ... exportMeshToStl(meshRef.current, file) },
\* the mesh being mounted
handleExport ==
    /\ download' = FileName(generated)
    /\ UNCHANGED <<nameOrPhrase, complexityLevel, thicknessLevel, sizeLevel, generated, Others>>

NextApp ==
    \/ \E value \in TypedNames : SetNameOrPhrase(value)
    \/ FocusName
    \/ \E level \in 0..2 : SetComplexityLevel(level)
    \/ \E level \in 0..2 : SetThicknessLevel(level)
    \/ \E level \in SizeLevels : SetSizeLevel(level)
    \/ handleRegenerate
    \/ \E key \in {"Enter", "a"} : handleNameKeyDown(key)
    \/ handleExport

SpecApp == InitApp /\ [][NextApp]_vars

-----------------------------------------------------------------------------
(* Claims about the seeded RNG *)

InRange32(w) == w[1] \in 0..65535 /\ w[2] \in 0..65535

\* FNV-1a as the specification words it, on unsigned words: h * 16777619 is
\* h * 2^24 + h * 403, reduced modulo 2^32
RefMulPrime(h) ==
    LET lo403 == h[2] * 403
    IN  <<(((h[2] % 256) * 256) + (h[1] * 403) + (lo403 \div Half)) % Half,
          lo403 % Half>>

RECURSIVE RefFnv1a(_, _, _)
RefFnv1a(h, str, i) ==
    IF i > Len(str) THEN h
    ELSE RefFnv1a(RefMulPrime(<<h[1], BitsXor(h[2], str[i], 16)>>), str, i + 1)

\* C3: seedFromString(text) is the FNV-1a fold over the characters of text in
\* order (from 2166136261: XOR the character code, then multiply by 16777619
\* modulo 2^32); the result is an integer in [0, 2^32), the empty string
\* yields 2166136261, and the seed is a function of the text alone.
C3_SeedIsFnv1a ==
    seedOut # None =>
        /\ seedOut = RefFnv1a(<<33052, 40389>>, text, 1)
        /\ InRange32(seedOut)
        /\ (text = <<>> => seedOut = <<33052, 40389>>)

\* a string of two or more characters has been hashed to a seed with the top
\* bit set (where a signed and an unsigned result differ)
C3_Witness == seedOut # None /\ Len(text) >= 2 /\ seedOut[1] >= 32768

\* C2: two generators created from the same seed return the same n-th value
\* for every n, under every interleaving of their calls, and a call to one
\* generator never changes the state of the other.
C2_SameSeedSameStream ==
    /\ [](\A n \in 1..Min(Len(outs["g1"]), Len(outs["g2"])) :
            outs["g1"][n] = outs["g2"][n])
    /\ [][\A g \in GenIds : outs'[g] = outs[g] => gens'[g] = gens[g]]_vars

\* the two generators have been called in an interleaved order, a different
\* number of times each
C2_Witness ==
    /\ Len(outs["g1"]) >= 3
    /\ Len(outs["g2"]) = 2
    /\ gens["g1"] # gens["g2"]

\* the state after n calls, by plain arithmetic: seed + n * 0x6D2B79F5
\* modulo 2^32
RefState(seed, n) ==
    LET lo == seed[2] + (n * 31221)
    IN  <<((seed[1] % Half) + (n * 27947) + (lo \div Half)) % Half, lo % Half>>

\* C4: after n calls the 32-bit state of a generator created by
\* mulberry32(seed) is (seed mod 2^32 + n * 0x6D2B79F5) mod 2^32, and every
\* value returned is k / 2^32 with 0 <= k < 2^32, hence in [0, 1).
C4_StateAndRange ==
    \A g \in DOMAIN gens :
        /\ gens[g] = RefState(genSeed, Len(outs[g]))
        /\ \A i \in 1..Len(outs[g]) : InRange32(outs[g][i])

\* a generator whose state has wrapped around 2^32 has been called three times
C4_Witness ==
    \E g \in DOMAIN gens :
        /\ Len(outs[g]) >= 3
        /\ genSeed[1] = 65535
        /\ gens[g][1] < 65535

-----------------------------------------------------------------------------
(* Claims about buildSnowflake2D *)

Range(seq) == {seq[i] : i \in 1..Len(seq)}

\* the rotation by 60 degrees about the origin, on points
\* ((xa + xb * sqrt 3) / 2, (ya + yb * sqrt 3) / 2):
\*   x' = x / 2 - y * sqrt 3 / 2,  y' = x * sqrt 3 / 2 + y / 2
Rot60(P) ==
    <<(P[1] - (3 * P[4])) \div 2, (P[2] - P[3]) \div 2,
      ((3 * P[2]) + P[3]) \div 2, (P[1] + P[4]) \div 2>>

RECURSIVE Rot60Times(_, _)
Rot60Times(P, k) == IF k = 0 THEN P ELSE Rot60(Rot60Times(P, k - 1))

Embed(p) == <<2 * p[1], 0, 2 * p[2], 0>>

RefClampComplexity(c) == IF c < FP THEN FP ELSE IF c > 10 * FP THEN 10 * FP ELSE c

\* C6: buildSnowflake2D clamps complexity to the integers 1..10: from the
\* same seed and thickness, a complexity below 1 yields the segment list of
\* complexity 1, one above 10 that of complexity 10, and clamping a clamped
\* value changes nothing.
C6_ComplexityClamped ==
    bPc = "done" =>
        /\ bRet.levels \in 1..10
        /\ Levels(bRet.levels * FP) = bRet.levels
        /\ bRet.segments =
              buildSnowflake2D(mulberry32(bArgs.seed),
                               RefClampComplexity(bArgs.complexity),
                               bArgs.thickness).segments

\* complexity 999 has been built, at ten levels
C6_Witness ==
    /\ bPc = "done"
    /\ bArgs.complexity = 999000
    /\ bRet.levels = 10
    /\ Len(bRet.branches) >= 1

-----------------------------------------------------------------------------
(* Claims about segmentsToPolygon *)

\* C9: whatever the segment list and the options, the polygon returned has at
\* least 8 points: it is the 24-point fallback, or a refined loop that had at
\* least 8 points before it was closed.
C9_AtLeastEightPoints ==
    pPc = "done" =>
        /\ Len(pRet.polygon) >= 8
        /\ \/ pRet.path = "loop" /\ pRet.refined >= 8
           \/ pRet.path # "loop" /\ Len(pRet.polygon) = 24

\* a refined loop of eight or nine points has been returned
C9_Witness ==
    /\ pPc = "done"
    /\ pRet.path = "loop"
    /\ pRet.refined \in 8..9

\* the box around the end points of the segments, (-1, 1) both ways when
\* there are none
RefBox(items) ==
    IF Len(items) = 0 THEN <<-FP, -FP, FP, FP>>
    ELSE LET xs == {items[i][1][1] : i \in 1..Len(items)}
                   \cup {items[i][2][1] : i \in 1..Len(items)}
             ys == {items[i][1][2] : i \in 1..Len(items)}
                   \cup {items[i][2][2] : i \in 1..Len(items)}
         IN  <<CHOOSE x \in xs : \A z \in xs : x <= z,
               CHOOSE y \in ys : \A z \in ys : y <= z,
               CHOOSE x \in xs : \A z \in xs : x >= z,
               CHOOSE y \in ys : \A z \in ys : y >= z>>

\* polygon is the regular 24-gon around the centre of box, starting on the
\* positive x direction, of radius 1.05 times half the larger side of the
\* box (of 1 if the box is smaller), up to the rounding of thousandths
IsRegularAround(polygon, box) ==
    LET cx == (box[1] + box[3]) \div 2
        cy == (box[2] + box[4]) \div 2
        side == Max(Max(box[3] - box[1], box[4] - box[2]), FP)
        r == (side * 525) \div FP
        tol == 3 + (r \div 250)
        chord == (r * 261) \div FP
    IN  /\ Len(polygon) = 24
        /\ Abs(polygon[1][1] - (cx + r)) <= tol
        /\ Abs(polygon[1][2] - cy) <= tol
        /\ \A k \in 1..24 :
              /\ Abs(Hypot(polygon[k][1] - cx, polygon[k][2] - cy) - r) <= tol
              /\ Abs(Hypot(polygon[(k % 24) + 1][1] - polygon[k][1],
                           polygon[(k % 24) + 1][2] - polygon[k][2]) - chord) <= tol
        /\ polygonArea(polygon) > 0

\* C10: when segments is no array or is empty, when fewer than 3 contour
\* segments are produced, when no loop closes, or when the chosen loop has
\* fewer than 8 points after refinement, segmentsToPolygon returns the
\* regular 24-point polygon centred on the centre of the segments' bounding
\* box: on the origin with radius 1.05 when there are no segments.
C10_FallbackCases ==
    pPc = "done" =>
        LET none == ~pArgs.segments.isArray \/ Len(pArgs.segments.items) = 0
        IN  /\ none => /\ pRet.path = "empty"
                       /\ IsRegularAround(pRet.polygon, <<-FP, -FP, FP, FP>>)
                       /\ pRet.polygon[1] = <<1050, 0>>
                       /\ pRet.polygon[13] = <<-1050, 0>>
            /\ (~none /\ (pRet.contours < 3 \/ pRet.loops = 0 \/ pRet.refined < 8))
                  => /\ pRet.path \in {"fewSegments", "noLoop", "short"}
                     /\ IsRegularAround(pRet.polygon, RefBox(pArgs.segments.items))

\* a loop was chosen and refined to six or seven points, and replaced
C10_Witness ==
    /\ pPc = "done"
    /\ pArgs.segments.isArray
    /\ pRet.contours >= 3
    /\ pRet.loops >= 1
    /\ pRet.refined \in 6..7
    /\ pRet.path = "short"

-----------------------------------------------------------------------------
(* Claims about the mesh front end *)

\* C1: in any sequence of invocations of makeSnowflakeMeshGeometry, the
\* segment list produced for a tuple (seed, complexity, thickness) is the
\* same list (same length, same order, same coordinates) every time the
\* tuple is used, whatever tuples were processed before or in between.
C1_SameTupleSameSegments ==
    \A i, j \in 1..Len(log) :
        log[i].key = log[j].key => log[i].segments = log[j].segments

\* a tuple has been used, then another one, then the first again
C1_Witness ==
    /\ mPc = "done"
    /\ Len(log) = 3
    /\ log[1].key = log[3].key
    /\ log[2].key # log[1].key
    /\ log[2].segments # log[1].segments

\* C7: makeSnowflakeMeshGeometry treats a complexity out of range as the
\* clamped value: complexity 999 yields the baseR, the core margin and the
\* selected wedge segments of complexity 10, complexity 0 those of
\* complexity 1, seed, thickness and size being the same.
C7_ComplexityClampedInMesh ==
    (mPc = "done" /\ mArgs.fn = "makeSnowflakeMeshGeometry") =>
        LET ref == makeSnowflakeMeshGeometry(<<>>, mArgs.seed,
                       RefClampComplexity(mArgs.complexity),
                       mArgs.thickness, mArgs.sizeInches)
        IN  /\ mRet.coreMaskParams.baseR = ref.coreMaskParams.baseR
            /\ mRet.coreMargin = ref.coreMargin
            /\ mRet.wedge = ref.wedge

\* thickness clamped to [2, 20]
RefClampThickness(th) ==
    IF th < 2 * FP THEN 2 * FP ELSE IF th > 20 * FP THEN 20 * FP ELSE th

\* C8: for every thickness below 2, 0 and negative values included,
\* buildSnowflake2D, makeSnowflakeMeshGeometry and
\* buildSnowflakeMeshFromSegments behave as for thickness 2, and for every
\* thickness above 20 as for thickness 20.
C8_ThicknessClamped ==
    mPc = "done" =>
        IF mArgs.fn = "makeSnowflakeMeshGeometry"
        THEN /\ mRet = makeSnowflakeMeshGeometry(<<>>, mArgs.seed, mArgs.complexity,
                           RefClampThickness(mArgs.thickness), mArgs.sizeInches)
             /\ buildSnowflake2D(mulberry32(mArgs.seed), mArgs.complexity,
                                 mArgs.thickness).segments
                = buildSnowflake2D(mulberry32(mArgs.seed), mArgs.complexity,
                                   RefClampThickness(mArgs.thickness)).segments
        ELSE mRet = buildSnowflakeMeshFromSegments(mArgs.segments,
                        RefClampThickness(mArgs.thickness))

\* C11: for every sizeInches > 0, the larger of the X and the Y extent of
\* the bounding box of the mesh makeSnowflakeMeshGeometry returns is the
\* requested diameter sizeInches * 25.4 mm (to a thousandth of it, and the
\* rounding of thousandths).
C11_DiameterAsRequested ==
    (mPc = "done" /\ mArgs.fn = "makeSnowflakeMeshGeometry" /\ mArgs.sizeInches > 0) =>
        Abs(Max(mRet.size[1], mRet.size[2]) - MulFP(mArgs.sizeInches, 25400))
            <= (MulFP(mArgs.sizeInches, 25400) \div 1000) + 5

\* C12: for the sizes 1, 2, 3, 4 and 5 inches, the Z extent of the bounding
\* box of the mesh makeSnowflakeMeshGeometry returns is the twentieth of the
\* target diameter (to a thousandth of it, and the rounding of thousandths).
C12_DepthIsTwentieth ==
    (mPc = "done" /\ mArgs.fn = "makeSnowflakeMeshGeometry"
     /\ mArgs.sizeInches \in {1000, 2000, 3000, 4000, 5000}) =>
        Abs(mRet.size[3] - (MulFP(mArgs.sizeInches, 25400) \div 20))
            <= (MulFP(mArgs.sizeInches, 25400) \div 20000) + 5

\* what the loop that was left computed is what the pipeline's function of
\* that loop returns
LoopLeft ==
    CASE frame.loop = "angle" ->
            frame.t = Wrapped(frame.theta) /\ Abs(frame.t) <= Pi
      [] frame.loop = "simplify" ->
            frame.st.loop = simplifyLoop(frame.points, frame.minEdge, 12)
      [] frame.loop = "walk" ->
            frame.loops = buildLoopsFromSegments(frame.cs)
      [] frame.loop = "choose" ->
            frame.loops[frame.c.mainLoop] = MainLoop(frame.loops)

\* a mesh that is not empty, built from the fallback outline when the wedge
\* filter has removed every segment
MeshBuilt ==
    /\ Len(mRet.position) >= 6
    /\ mRet.triangles >= 4
    /\ mArgs.fn = "makeSnowflakeMeshGeometry" =>
          /\ mRet.size[1] > 0 /\ mRet.size[2] > 0 /\ mRet.size[3] > 0
          /\ Len(mRet.wedge) = 0 =>
                /\ IsRegularAround(mRet.wedgeGeometry.polygon, <<-FP, -FP, FP, FP>>)
                /\ mRet.triangles = 6 * Triangles(FallbackPoints)

\* C13: for every parameter tuple the pipeline terminates and yields a mesh
\* that is not empty: the call returns and each while loop is left, and when
\* the wedge filter has removed every segment the mesh is built from the
\* fallback outline.
C13_TerminatesWithMesh ==
    /\ <>(mPc = "done" \/ fPc = "done")
    /\ [](mPc = "done" => MeshBuilt)
    /\ [](fPc = "done" => LoopLeft)

\* every segment was filtered out, and a mesh was returned
C13_Witness ==
    /\ mPc = "done"
    /\ mArgs.fn = "makeSnowflakeMeshGeometry"
    /\ Len(mRet.segments) > 0
    /\ Len(mRet.wedge) = 0
    /\ Len(mRet.position) = 12 * FallbackPoints

\* the orders a list of n segments can be passed in
Orders(n) == {f \in [1..n -> 1..n] : \A i, j \in 1..n : f[i] = f[j] => i = j}

Reordered(segments, f) == [k \in 1..Len(segments) |-> segments[f[k]]]

\* C14: the order of the segments passed to buildSnowflakeMeshFromSegments
\* does not affect the geometry: every permutation of the list gives the same
\* outline and the same relief depth at every vertex.
C14_OrderIrrelevant ==
    (mPc = "done" /\ mArgs.fn = "buildSnowflakeMeshFromSegments") =>
        \A f \in Orders(Len(mArgs.segments)) :
            LET other == buildSnowflakeMeshFromSegments(
                             Reordered(mArgs.segments, f), mArgs.thickness)
            IN  /\ other.polygon = mRet.polygon
                /\ other.position = mRet.position

\* what the store held before the call
Before == Stock.store

\* the objects that were in the store before the call
Kept(addresses) == \A a \in addresses : store[a] = Before[a]

\* C15 as stated: no stage function mutates an input of its caller, and each
\* call returns a newly allocated result.
C15_NoStageMutates ==
    sPc = "done" => /\ Kept(1..Len(Before))
                    /\ sRet > Len(Before)

\* C15: segmentsToPolygon, analyzeSegments, applySurfaceRelief, chaikin,
\* simplifyLoop and fallbackPolygon leave the segment lists, the segments
\* and the point arrays they are given unchanged; each but
\* applySurfaceRelief returns an array that did not exist before the call
\* and writes no object that did, and applySurfaceRelief writes only the
\* geometry it is given and returns nothing.
C15_InputsKept ==
    sPc = "done" =>
        /\ Kept((1..Len(Before)) \ Stock.geometry)
        /\ Len(store) >= Len(Before)
        /\ IF sArgs.fn = "applySurfaceRelief"
           THEN sRet = 0
           ELSE /\ Kept(Stock.geometry)
                /\ sRet \in (Len(Before) + 1)..Len(store)

\* simplifyLoop has removed points, from an array that is not the one it
\* was given
C15_Witness ==
    /\ sPc = "done"
    /\ sArgs.fn = "simplifyLoop"
    /\ Len(store[sRet].refs) < Len(Before[sArgs.a].refs)
    /\ store[sArgs.a] = Before[sArgs.a]

\* the vertices of a are those of b scaled as the target diameters are to
\* each other, in the plane and in depth (the target depth is a twentieth of
\* the target diameter), up to the rounding of thousandths
ScaledAlike(a, b) ==
    /\ Len(a.position) = Len(b.position)
    /\ \A i \in 1..Len(a.position) : \A c \in 1..3 :
          Abs((a.position[i][c] * (b.targetDiameterMm \div 100))
              - (b.position[i][c] * (a.targetDiameterMm \div 100)))
              <= 10 * ((a.targetDiameterMm + b.targetDiameterMm) \div 100)

\* the same call with the size of three inches
AtThreeInches ==
    makeSnowflakeMeshGeometry(<<>>, mArgs.seed, mArgs.complexity, mArgs.thickness, 3000)

\* C16: two invocations that differ only in sizeInches use the same seed,
\* produce the same skeleton segment list, the same selected wedge segments
\* and the same triangle count, and differ only by the final scale factors.
C16_SizeOnlyScales ==
    (mPc = "done" /\ mArgs.fn = "makeSnowflakeMeshGeometry"
     /\ mArgs.sizeInches \in {1000, 2000, 4000, 5000}) =>
        /\ AtThreeInches.t = mRet.t
        /\ AtThreeInches.segments = mRet.segments
        /\ AtThreeInches.wedge = mRet.wedge
        /\ AtThreeInches.triangles = mRet.triangles
        /\ ScaledAlike(mRet, AtThreeInches)

\* the corners an edge joins, as indices of v0..v3: edge 0 joins corners 0-1,
\* edge 1 corners 1-2, edge 2 corners 3-2, edge 3 corners 0-3
EdgeCorners == << {1, 2}, {2, 3}, {4, 3}, {1, 4} >>

\* the field changes sign along edge e of a cell with corner values v
Crossed(v, e) == \E c, d \in EdgeCorners[e + 1] : v[c] < 0 /\ ~(v[d] < 0)

\* how many times the pairs name edge e
Uses(pairs, e) ==
    Cardinality({pk \in (1..Len(pairs)) \X (1..2) : pairs[pk[1]][pk[2]] = e})

\* C17: for every mask and either sign of the centre value, caseToEdgePairs
\* returns pairs that use exactly the cell edges whose two corners have
\* opposite signs, each once; masks 0 and 15 give no pair, the saddle masks 5
\* and 10 two pairs, every other mask one pair.
C17_PairsUseCrossedEdges ==
    \A n \in 1..Len(cells) :
        /\ \A e \in 0..3 :
              Uses(cells[n].pairs, e) = IF Crossed(cells[n].v, e) THEN 1 ELSE 0
        /\ Len(cells[n].pairs) = IF cells[n].mask \in {0, 15} THEN 0
                                 ELSE IF cells[n].mask \in {5, 10} THEN 2 ELSE 1

C17_Witness ==
    /\ cPc = "done"
    /\ cells[1].mask = 5 /\ cells[1].centerValue >= 0 /\ Len(cells[1].pairs) = 2
    /\ cells[2].mask = 10 /\ cells[2].centerValue >= 0
    /\ cells[3].mask = 14 /\ cells[3].centerValue < 0 /\ Len(cells[3].pairs) = 1
    /\ cells[4].mask = 13 /\ cells[4].pairs = << <<0, 1>> >>

\* the corner that the two edges of a pair share, as an index of v0..v3: the
\* corner the contour segment cuts off
CutOff(pair) == CHOOSE c \in 1..4 : c \in EdgeCorners[pair[1] + 1] \cap EdgeCorners[pair[2] + 1]

\* C18: in the saddle masks 5 and 10, when the centre value is negative each
\* emitted contour segment cuts off one positive corner (the negative corners
\* stay connected through the centre); when it is non-negative each emitted
\* contour segment cuts off one negative corner.
C18_SaddleFollowsCentre ==
    \A n \in 1..Len(cells) :
        cells[n].mask \in {5, 10} =>
            \A p \in 1..Len(cells[n].pairs) :
                (cells[n].v[CutOff(cells[n].pairs[p])] < 0) = ~(cells[n].centerValue < 0)

\* a grid edge, as the set of the two grid corners it joins: edge e of the
\* cell ix, iy
GridEdge(ix, iy, e) ==
    CASE e = 0 -> {<<ix, iy>>, <<ix + 1, iy>>}
      [] e = 1 -> {<<ix + 1, iy>>, <<ix + 1, iy + 1>>}
      [] e = 2 -> {<<ix, iy + 1>>, <<ix + 1, iy + 1>>}
      [] e = 3 -> {<<ix, iy>>, <<ix, iy + 1>>}

\* the number of contour segments pushed before iteration n
RECURSIVE PushedBefore(_)
PushedBefore(n) == IF n <= 1 THEN 0 ELSE PushedBefore(n - 1) + Len(cells[n - 1].pairs)

\* the nodes pushed so far: the iteration, the grid edge, whether the edge is
\* vertical, and the node interpolateEdgeNode returned for it
Nodes ==
    { [cell |-> npk[1],
       edge |-> GridEdge(cells[npk[1]].ix, cells[npk[1]].iy,
                         cells[npk[1]].pairs[npk[2]][npk[3]]),
       vertical |-> cells[npk[1]].pairs[npk[2]][npk[3]] \in {1, 3},
       node |-> IF npk[3] = 1 THEN cSegs[PushedBefore(npk[1]) + npk[2]].a
                ELSE cSegs[PushedBefore(npk[1]) + npk[2]].b] :
        npk \in { q \in (1..Len(cells)) \X (1..2) \X (1..2) :
                    q[2] <= Len(cells[q[1]].pairs) } }

\* the grid indices the keys are compared over
MaxIndex == 12

\* the key of every edge of the cells 0..MaxIndex x 0..MaxIndex
EdgeKeys ==
    { [edge |-> GridEdge(ije[1], ije[2], ije[3]),
       key |-> interpolateEdgeNode(ije[1], ije[2], 0, 0, FP, ije[3],
                                   -FP, FP, -FP, FP).key] :
        ije \in (0..MaxIndex) \X (0..MaxIndex) \X (0..3) }

\* the keys tell the grid edges apart, among the nodes pushed and against
\* every edge of the grid
KeysTellEdges ==
    /\ \A a, b \in Nodes : a.node.key = b.node.key => a.edge = b.edge
    /\ \A a \in Nodes : \A k \in EdgeKeys : a.node.key = k.key => a.edge = k.edge

\* every crossing key has at most two incident contour segments
AtMostTwo ==
    \A i \in 1..Len(cSegs) :
        /\ Cardinality(byKey(cSegs, cSegs[i].a.key)) <= 2
        /\ Cardinality(byKey(cSegs, cSegs[i].b.key)) <= 2

\* C19 as stated: interpolateEdgeNode gives a grid edge the same key and the
\* same interpolated crossing point from either of the two cells it belongs
\* to; two distinct grid edges never receive the same key; every crossing key
\* has at most two incident contour segments.
C19_SameKeySamePoint ==
    cPc = "done" =>
        /\ \A a, b \in Nodes :
              a.edge = b.edge => a.node.key = b.node.key /\ a.node.point = b.node.point
        /\ KeysTellEdges
        /\ AtMostTwo

\* the largest magnitude in the arithmetic of the grid coordinates of the block
Reach(b) ==
    Max(Abs(b.g.minX) + ((b.ix + 2) * b.g.cellSize),
        Abs(b.g.minY) + ((b.iy + 2) * b.g.cellSize))

\* p and q lie at the same place along the edge, and on grid lines that are
\* equal where the coordinates are exact and otherwise within three units of
\* the last place of the largest coordinate
SamePlace(vertical, p, q) ==
    /\ IF vertical THEN p[2] = q[2] ELSE p[1] = q[1]
    /\ IF Ulp(Reach(block)) = 1 THEN p = q
       ELSE Abs((IF vertical THEN p[1] - q[1] ELSE p[2] - q[2])) <= 3 * Ulp(Reach(block))

\* C19 (amended): a grid edge has the same key from either cell, the same
\* position along the edge, and a grid-line coordinate that agrees up to the
\* rounding of x + cellSize against minX + (ix + 1) * cellSize; distinct grid
\* edges have distinct keys; every key has at most two incident segments.
C19_SameKeyNearPoint ==
    cPc = "done" =>
        /\ \A a, b \in Nodes :
              a.edge = b.edge =>
                  /\ a.node.key = b.node.key
                  /\ SamePlace(a.vertical, a.node.point, b.node.point)
        /\ KeysTellEdges
        /\ AtMostTwo

C19_Witness ==
    /\ cPc = "done"
    /\ \E a, b \in Nodes :
          /\ a.cell # b.cell /\ a.edge = b.edge /\ a.vertical
          /\ a.node.key = b.node.key
          /\ a.node.point # b.node.point
    /\ \E a, b \in Nodes :
          /\ a.cell # b.cell /\ a.edge = b.edge /\ ~a.vertical
          /\ a.node.key = b.node.key
          /\ a.node.point = b.node.point
    /\ Len(cSegs) = 6

\* the clean case: every crossing key has exactly two incident contour
\* segments and every cycle has at least 3 segments
Clean(cs) ==
    /\ \A i \in 1..Len(cs) :
          /\ cs[i].a.key # cs[i].b.key
          /\ Cardinality(byKey(cs, cs[i].a.key)) = 2
          /\ Cardinality(byKey(cs, cs[i].b.key)) = 2
    /\ \A i, j \in 1..Len(cs) :
          {cs[i].a.key, cs[i].b.key} = {cs[j].a.key, cs[j].b.key} => i = j

\* the walk that has just ended went once around a cycle: it closed, and the
\* contour segments it used are those between its consecutive keys
WentAround(cs, w, taken) ==
    /\ Len(w.loopKeys) >= 4
    /\ w.loopKeys[1] = w.loopKeys[Len(w.loopKeys)]
    /\ Cardinality(taken) = Len(w.loopKeys) - 1
    /\ \A k \in 1..(Len(w.loopKeys) - 1) :
          \E i \in taken : {cs[i].a.key, cs[i].b.key} = {w.loopKeys[k], w.loopKeys[k + 1]}

\* the sides of a loop: its consecutive points, and last-to-first
Sides(loop) == {{loop[k], loop[(k % Len(loop)) + 1]} : k \in 1..Len(loop)}

\* the number of points over loops
RECURSIVE PointsOver(_)
PointsOver(loops) ==
    IF Len(loops) = 0 THEN 0 ELSE Len(Head(loops)) + PointsOver(Tail(loops))

\* the loops returned are the cycles of cs, ends(i) being the two end points
\* of contour segment i
AreCycles(cs, loops, ends(_)) ==
    /\ \A i \in 1..Len(cs) :
          Cardinality({l \in 1..Len(loops) : ends(i) \in Sides(loops[l])}) = 1
    /\ PointsOver(loops) = Len(cs)
    /\ \A l \in 1..Len(loops) :
          /\ \A side \in Sides(loops[l]) : \E i \in 1..Len(cs) : ends(i) = side
          /\ loops[l][1] # loops[l][Len(loops[l])]

\* the points of the two nodes of contour segment i
OwnEnds(i) == {frame.cs[i].a.point, frame.cs[i].b.point}

\* the points stored for the two keys of contour segment i
StoredEnds(i) ==
    {keyToPoint(frame.cs, frame.cs[i].a.key), keyToPoint(frame.cs, frame.cs[i].b.key)}

\* every walk of a clean case goes once around a cycle and uses up the contour
\* segments
CleanWalks ==
    /\ fPc = "keep" => WentAround(frame.cs, frame.w, frame.w.used \ frame.used)
    /\ fPc = "done" => frame.used = 1..Len(frame.cs)

\* C20 as stated: in a clean case buildLoopsFromSegments returns exactly the
\* cycles of the contour graph: every contour segment lies on exactly one
\* returned loop, the points over all loops are as many as the contour
\* segments, and consecutive points of a loop (and last-to-first) are the
\* endpoints of one contour segment, the start not repeated at the end.
C20_CleanLoopsAreCycles ==
    (fPc \in Positions /\ frame.loop = "walk" /\ Clean(frame.cs)) =>
        /\ CleanWalks
        /\ fPc = "done" => AreCycles(frame.cs, frame.loops, OwnEnds)

\* C20 (amended): the same, the points of a loop being the points stored for
\* the keys: consecutive points are the stored points of the two end keys of
\* one contour segment.
C20_CleanLoopsAreKeyCycles ==
    (fPc \in Positions /\ frame.loop = "walk" /\ Clean(frame.cs)) =>
        /\ CleanWalks
        /\ fPc = "done" => AreCycles(frame.cs, frame.loops, StoredEnds)

C20_Witness ==
    /\ fPc = "done" /\ frame.loop = "walk" /\ Clean(frame.cs)
    /\ Len(frame.loops) = 2
    /\ Len(frame.cs) = 8
    /\ \E i \in 1..Len(frame.cs) : OwnEnds(i) # StoredEnds(i)

\* a walk that is under way has used one fresh contour segment for every key
\* it has pushed after the first two, and the loops kept so far have at least
\* 3 points each and no more points than there are used segments
WalkKeepsCount ==
    /\ frame.used \subseteq 1..Len(frame.cs)
    /\ PointsOver(frame.loops) <= Cardinality(frame.used)
    /\ \A l \in 1..Len(frame.loops) : Len(frame.loops[l]) >= 3
    /\ fPc \in {"walk", "turn", "keep"} =>
          /\ frame.used \subseteq frame.w.used
          /\ Cardinality(frame.w.used \ frame.used) = Len(frame.w.loopKeys) - 1

\* the chain of the walk closed on its starting key with at least 3 points
Closed(w) == Len(w.loopKeys) >= 4 /\ w.loopKeys[1] = w.loopKeys[Len(w.loopKeys)]

\* at the end of a walk a loop is pushed exactly if the chain closed, and it
\* has one point for every contour segment the walk used
KeepsClosedOnly ==
    (fPc = "keep" /\ frame.loop = "walk") =>
        IF Closed(frame.w)
        THEN /\ Len(frame'.loops) = Len(frame.loops) + 1
             /\ Len(frame'.loops[Len(frame'.loops)])
                    = Cardinality(frame.w.used \ frame.used)
        ELSE frame'.loops = frame.loops

\* C21: for every contour-segment list, with dangling ends or keys shared by
\* more than two segments, buildLoopsFromSegments terminates, uses each contour
\* segment at most once so that no segment is in two returned loops, and
\* returns only chains that closed on their starting key with at least 3
\* points; chains that do not close are dropped.
C21_WalkEndsAndKeepsClosed ==
    /\ <>(fPc = "done")
    /\ []((fPc \in Positions /\ frame.loop = "walk") => WalkKeepsCount)
    /\ [][KeepsClosedOnly]_vars

C21_Witness ==
    /\ fPc = "done" /\ frame.loop = "walk" /\ ~Clean(frame.cs)
    /\ Len(frame.loops) = 1
    /\ Len(frame.loops[1]) = 4
    /\ Cardinality(frame.used) = 6
    /\ Len(frame.cs) = 6

\* C22: of the loops returned, the loop chosen for refinement has the greatest
\* absolute area, and is the earliest of the loops of that area
AbsArea(l) == Abs(polygonArea(frame.loops[l]))

C22_LargestLoopIsRefined ==
    (fPc = "done" /\ frame.loop = "choose") =>
        /\ frame.c.mainLoop \in 1..Len(frame.loops)
        /\ \A l \in 1..Len(frame.loops) : AbsArea(l) <= AbsArea(frame.c.mainLoop)
        /\ \A l \in 1..(frame.c.mainLoop - 1) : AbsArea(l) < AbsArea(frame.c.mainLoop)
        /\ frame.c.bestArea = AbsArea(frame.c.mainLoop)
        /\ MainLoop(frame.loops) = frame.loops[frame.c.mainLoop]

C22_Witness ==
    /\ fPc = "done" /\ frame.loop = "choose"
    /\ Len(frame.loops) = 3 /\ frame.c.mainLoop = 2
    /\ polygonArea(frame.loops[2]) < 0
    /\ AbsArea(3) = AbsArea(2)

\* C23: simplifyLoop ends; six points or more stay six or more, fewer than
\* six come back as they are, the points returned are points of the input in
\* their order, and every turn of the while loop removes exactly one point
RECURSIVE After(_, _, _, _, _)
\* where in is left once the points i..k of out have been found in it, in
\* order and each as early as possible, from j on; past its end if they
\* are not all there
After(out, in, i, k, j) ==
    IF j > Len(in) THEN Len(in) + 2
    ELSE IF i = k
    THEN LET H == {h \in j..Len(in) : in[h] = out[i]}
         IN  IF H = {} THEN Len(in) + 2 ELSE SetMin(H) + 1
    ELSE After(out, in, ((i + k) \div 2) + 1, k,
               After(out, in, i, (i + k) \div 2, j))

Within(out, in) == Len(out) = 0 \/ After(out, in, 1, Len(out), 1) <= Len(in) + 1

Simplifying == fPc \in Positions /\ frame.loop = "simplify"

KeepsSix ==
    /\ Within(frame.st.loop, frame.points)
    /\ Len(frame.points) >= 6 => Len(frame.st.loop) >= 6
    /\ Len(frame.points) < 6 => frame.st.loop = frame.points

RemovesOne ==
    (fPc = "pass" /\ frame.loop = "simplify") =>
        Len(frame'.st.loop) = Len(frame.st.loop) - 1

C23_EachPassRemovesOne ==
    /\ [](Simplifying => <>(fPc = "done"))
    /\ [](Simplifying => KeepsSix)
    /\ [][RemovesOne]_vars

\* C23 as amended: a turn of the while loop removes one point when a
\* removable one is left, and none when none is left, which ends the loop
CanRemove ==
    \E i \in 1..Len(frame.st.loop) : Removable(frame.st.loop, i, frame.minEdge, 12)

RemovesOneIfAny ==
    (fPc = "pass" /\ frame.loop = "simplify") =>
        IF CanRemove
        THEN Len(frame'.st.loop) = Len(frame.st.loop) - 1 /\ frame'.st.changed
        ELSE frame'.st.loop = frame.st.loop /\ ~frame'.st.changed

C23_EachPassRemovesAtMostOne ==
    /\ [](Simplifying => <>(fPc = "done"))
    /\ [](Simplifying => KeepsSix)
    /\ [][RemovesOneIfAny]_vars

\* the loop was left at six points with a removable point still in it
C23_Witness ==
    /\ fPc = "done" /\ frame.loop = "simplify"
    /\ Len(frame.points) = 8 /\ Len(frame.st.loop) = 6
    /\ CanRemove

\* C24: the polygon segmentsToPolygon returns, refined loop or fallback, has a
\* signed area that is not negative
C24_ReturnedCounterClockwise ==
    pPc = "done" => polygonArea(pRet.polygon) >= 0

\* the refined loop of the call, before it is turned and closed
Unturned ==
    simplifyLoop(chaikin(MainLoop(buildLoopsFromSegments(
                                      ContoursOf(pArgs.segments.items, pArgs.options))),
                         clamp(Opt(pArgs.options, "smoothingIterations", 2), 1, 3), 120),
                 MulFP(GridOf(pArgs.segments.items, pArgs.options).cellSize, 220), 12)

\* a refined loop that was wound clockwise has been returned
C24_Witness ==
    /\ pPc = "done" /\ pRet.path = "loop"
    /\ polygonArea(Unturned) < 0
    /\ polygonArea(pRet.polygon) > 0

\* a fallback polygon has been returned
C24_FallbackWitness ==
    /\ pPc = "done" /\ pRet.path = "short"
    /\ polygonArea(pRet.polygon) > 0

\* C25: the last point of the polygon segmentsToPolygon returns never equals
\* its first point
Ends(polygon) == <<polygon[1], polygon[Len(polygon)]>>

C25_LastIsNotFirst ==
    pPc = "done" => Ends(pRet.polygon)[1] # Ends(pRet.polygon)[2]

\* C25 as amended: a refined loop whose ends are more than a quarter of a
\* cell apart is returned with a copy of its first point appended, so that
\* its last point equals its first; a refined loop whose ends are closer, and
\* the fallback polygon, are returned with a last point that is not the first
Apart(p, q) ==
    Hypot(p[1] - q[1], p[2] - q[2])
        > MulFP(GridOf(pArgs.segments.items, pArgs.options).cellSize, 250)

C25_ClosedWhenEndsApart ==
    pPc = "done" =>
        IF pRet.path = "loop"
        THEN \/ /\ Len(pRet.polygon) = pRet.refined + 1
                /\ Ends(pRet.polygon)[1] = Ends(pRet.polygon)[2]
                /\ Apart(pRet.polygon[1], pRet.polygon[pRet.refined])
             \/ /\ Len(pRet.polygon) = pRet.refined
                /\ Ends(pRet.polygon)[1] # Ends(pRet.polygon)[2]
                /\ ~Apart(pRet.polygon[1], pRet.polygon[pRet.refined])
        ELSE /\ Len(pRet.polygon) = FallbackPoints
             /\ Ends(pRet.polygon)[1] # Ends(pRet.polygon)[2]

C25_Witness ==
    /\ pPc = "done" /\ pRet.path = "loop"
    /\ Len(pRet.polygon) = pRet.refined + 1
    /\ pRet.polygon[Len(pRet.polygon)] = pRet.polygon[1]

\* C26: branches are attached only at interior spine nodes with
\* 0.28 <= t <= 0.97; a node outside that range makes no draw, a node inside
\* it makes one draw against the branch probability, and the parameters of a
\* branch are drawn only when that draw is not above the probability
LastNode == bRet.levels + 7

InRange(i) == 28 * LastNode <= 100 * i /\ 100 * i <= 97 * LastNode

BranchesAt(i) == {b \in 1..Len(bRet.branches) : bRet.branches[b].node = i}

\* the draws that fix the parameters of a branch: angle, length, addTwig,
\* the second twig and three per twig, addPlates, the second plate and one
\* per plate
ParamDraws(b) ==
    3 + (IF b.twigs > 0 THEN 1 + (3 * b.twigs) ELSE 0)
      + 1 + (IF b.plates > 0 /\ bRet.levels > 6 THEN 1 ELSE 0) + b.plates

\* the draws made at interior node i, by the branches recorded
DrawsAt(i) ==
    IF ~InRange(i) THEN 0
    ELSE IF BranchesAt(i) = {} THEN 1
    ELSE 1 + ParamDraws(bRet.branches[CHOOSE b \in BranchesAt(i) : TRUE])

RECURSIVE DrawsBefore(_)
\* the draws made before interior node i is reached: one per spine step,
\* then those of the nodes before it
DrawsBefore(i) == IF i <= 1 THEN LastNode ELSE DrawsBefore(i - 1) + DrawsAt(i - 1)

\* the draw against the branch probability at node i
Bernoulli(i) ==
    Frac(Stream(mulberry32(bArgs.seed), DrawsBefore(i) + 1)[DrawsBefore(i) + 1].value)

C26_BranchesOnlyInRange ==
    bPc = "done" =>
        /\ \A b \in 1..Len(bRet.branches) :
               /\ bRet.branches[b].node \in 1..(LastNode - 1)
               /\ InRange(bRet.branches[b].node)
        /\ \A i \in 1..(LastNode - 1) : Cardinality(BranchesAt(i)) <= 1
        /\ bRet.draws = DrawsBefore(LastNode)
        /\ \A i \in 1..(LastNode - 1) :
               InRange(i) =>
                   (BranchesAt(i) # {}
                       <=> Bernoulli(i) <= Min(950, 580 + (24 * bRet.levels)))

\* some node was out of range, some drew and was passed over, some branched
C26_Witness ==
    /\ bPc = "done"
    /\ \E i \in 2..(LastNode - 1) : ~InRange(i)
    /\ \E i \in 1..(LastNode - 1) : InRange(i) /\ BranchesAt(i) = {}
    /\ \E i \in 1..(LastNode - 1) : InRange(i) /\ BranchesAt(i) # {}

\* C27: every segment of the arm, and so every segment emitted, is at least
\* minFeature long
SegmentLength(segment) ==
    Hypot(segment[2][1] - segment[1][1], segment[2][2] - segment[1][2])

C27_NoShortSegment ==
    bPc = "done" =>
        \A j \in 1..Len(bRet.arm) : SegmentLength(bRet.arm[j]) >= MinFeature

\* C27 as amended: the spine and rail segments are at least minFeature long,
\* and the branch, twig, plate and tip segments are at least minFeature long
\* up to the rounding of the coordinates of their end points; no segment has
\* its two ends in one place, and each is emitted six times
C27_NoShortSegmentUpToRounding ==
    bPc = "done" =>
        /\ \A j \in 1..Len(bRet.arm) :
               /\ SegmentLength(bRet.arm[j]) >= MinFeature - 1
               /\ bRet.arm[j][1] # bRet.arm[j][2]
        /\ \A j \in 1..(3 * LastNode) :
               /\ bRet.arm[j][2][1] - bRet.arm[j][1][1] >= MinFeature
               /\ bRet.arm[j][2][2] = bRet.arm[j][1][2]
        /\ Len(bRet.segments) = 6 * Len(bRet.arm)

\* a twig or plate was raised to minFeature and its end points are that far
\* apart only up to rounding
C27_Witness ==
    /\ bPc = "done" /\ bRet.levels = 1
    /\ Len(bRet.branches) >= 1
    /\ \E j \in 1..Len(bRet.arm) : SegmentLength(bRet.arm[j]) = MinFeature - 1

\* C28: a branch carries at most two twigs and at most two plates, two plates
\* only when levels > 6, and the two branches of a pair have the same twigs
\* and plates and are mirror images of each other across the X axis
SideLength(b) == 1 + b.twigs + b.plates

RECURSIVE PairStart(_)
\* the segments of the arm before the pair of branch b: three per spine step,
\* then the pairs before it
PairStart(b) ==
    IF b <= 1 THEN 3 * LastNode
    ELSE PairStart(b - 1) + (2 * SideLength(bRet.branches[b - 1]))

Mirrored(segment) ==
    << <<segment[1][1], -segment[1][2]>>, <<segment[2][1], -segment[2][2]>> >>

C28_PairsAreMirrored ==
    bPc = "done" =>
        /\ \A b \in 1..Len(bRet.branches) :
               /\ bRet.branches[b].twigs \in 0..2
               /\ bRet.branches[b].plates \in 0..2
               /\ bRet.branches[b].plates = 2 => bRet.levels > 6
               /\ \A k \in 1..SideLength(bRet.branches[b]) :
                      bRet.arm[PairStart(b) + SideLength(bRet.branches[b]) + k]
                          = Mirrored(bRet.arm[PairStart(b) + k])
               /\ bRet.arm[PairStart(b) + 1][1] = bRet.nodes[bRet.branches[b].node + 1]
               /\ bRet.arm[PairStart(b) + 1][2][2] > 0
        /\ Len(bRet.arm) = PairStart(Len(bRet.branches) + 1) + 3

C28_Witness ==
    /\ bPc = "done"
    /\ \E b \in 1..Len(bRet.branches) :
           bRet.branches[b].twigs = 2 /\ bRet.branches[b].plates = 2
    /\ \E b \in 1..Len(bRet.branches) : bRet.branches[b].twigs = 0
    /\ \E b \in 1..Len(bRet.branches) : bRet.branches[b].plates = 0

\* C29: applySurfaceRelief writes nothing but the z of the vertices of its
\* geometry: x and y stay, the side of z stays, a vertex with
\* |z| < 0.32 depth stays as it is, a vertex that is moved ends at
\* |z| >= 0.18 depth, and with no segments nothing is written at all
ReliefDone == sPc = "done" /\ sArgs.fn = "applySurfaceRelief"

VertexBefore(i) == Stock.store[sArgs.a].nums[i]

VertexAfter(i) == store[sArgs.a].nums[i]

Untouched(i) == VertexAfter(i) = VertexBefore(i)

Displaced(i) ==
    /\ VertexAfter(i)[1] = VertexBefore(i)[1]
    /\ VertexAfter(i)[2] = VertexBefore(i)[2]
    /\ (VertexAfter(i)[3] > 0) = (VertexBefore(i)[3] > 0)
    /\ (VertexAfter(i)[3] < 0) = (VertexBefore(i)[3] < 0)
    /\ Abs(VertexAfter(i)[3]) >= MulFP(sArgs.n, 180)

C29_ReliefMovesZOnly ==
    ReliefDone =>
        /\ Len(store[sArgs.a].nums) = Len(Stock.store[sArgs.a].nums)
        /\ store[sArgs.a].refs = Stock.store[sArgs.a].refs
        /\ \A a \in 1..Len(Stock.store) : a # sArgs.a => store[a] = Stock.store[a]
        /\ \A i \in 1..Len(Stock.store[sArgs.a].nums) :
               IF Len(Stock.store[sArgs.b].refs) = 0 THEN Untouched(i)
               ELSE IF Abs(VertexBefore(i)[3]) < MulFP(sArgs.n, 320) THEN Untouched(i)
               ELSE Displaced(i)

\* one vertex below the threshold was left and one on the lower side was moved
C29_Witness ==
    /\ ReliefDone
    /\ Len(Stock.store[sArgs.b].refs) > 1
    /\ \E i \in 1..Len(Stock.store[sArgs.a].nums) :
           VertexBefore(i)[3] > 0 /\ Untouched(i)
    /\ \E i \in 1..Len(Stock.store[sArgs.a].nums) :
           /\ VertexBefore(i)[3] < 0
           /\ VertexAfter(i)[3] < 0
           /\ VertexAfter(i)[3] # VertexBefore(i)[3]

\* a call with no segments has returned
C29_EmptyWitness ==
    ReliefDone /\ Len(Stock.store[sArgs.b].refs) = 0 /\ store = Stock.store

\* C30: the committed tuple changes only in a step of handleRegenerate, which
\* leaves it equal to the inputs taken through the tables (complexity 3, 6, 9,
\* thickness 4, 10, 16, size 1..5); edits of the inputs and exports leave it
\* as it was, and a file exported is named after it
Regenerates == handleRegenerate \/ handleNameKeyDown("Enter")

Edits ==
    <<nameOrPhrase, complexityLevel, thicknessLevel, sizeLevel>>'
        # <<nameOrPhrase, complexityLevel, thicknessLevel, sizeLevel>>

CommitsInputs ==
    generated' = [nameOrPhrase |-> nameOrPhrase,
                  complexity |-> 3 * (complexityLevel + 1),
                  thickness |-> 4 + (6 * thicknessLevel),
                  complexityLevel |-> complexityLevel,
                  thicknessLevel |-> thicknessLevel,
                  sizeInches |-> sizeLevel + 1]

OnlyRegenerateCommits ==
    /\ generated' # generated => Regenerates /\ CommitsInputs /\ ~Edits
    /\ Regenerates => CommitsInputs
    /\ Edits => generated' = generated
    /\ download' # download => generated' = generated /\ download' = FileName(generated)

C30_OnlyRegenerateCommits == [][OnlyRegenerateCommits]_vars

\* every input has been edited since the last commit, and a file exported
C30_Witness ==
    /\ generated = Tuple(InitialName, 2, 0, 4)
    /\ nameOrPhrase # generated.nameOrPhrase
    /\ complexityLevel # generated.complexityLevel
    /\ thicknessLevel # generated.thicknessLevel
    /\ sizeLevel + 1 # generated.sizeInches
    /\ download = FileName(generated)
    /\ seedOf(generated) # seedOf(Tuple(InitialName, 1, 1, 2))

====
